---- MODULE Spec2Model ----
(***************************************************************************)
(* Server-authoritative gameplay kernel of dungeonpunk: the overlay store  *)
(* (seed hub, frontier expansion), the edge oracle of the world engine,    *)
(* the per-connection message handler (seq / auth / move / turn) and the   *)
(* discovery store.                                                        *)
(*                                                                         *)
(* The model follows the newest variant of each source file: the overlay   *)
(* world engine (engine/src/world.ts, first half), the overlay provider    *)
(* (server/src/overlays.ts), the message handler (server/src/ws.ts, second *)
(* half) and server/src/state.ts (first variant, the one whose signatures  *)
(* the handler uses).                                                      *)
(*                                                                         *)
(* All store keys are scoped to the one world and the one level (1) that   *)
(* characters are created on.  updated_at_ms columns are not modelled.     *)
(* Identifiers drawn by id() are opaque; the model keeps one token for     *)
(* them.  Draws of Rng32 are inputs of the operations (parameter rnd): the *)
(* generator is seeded from the world id, which is itself random.          *)
(***************************************************************************)
EXTENDS Integers, Sequences, FiniteSets, TLC

(* ------------------------------ bounds -------------------------------- *)
MaxNow == 250          \* the clock stops advancing here
TickMs == 125          \* granularity of the clock
MaxSeq == 2            \* largest integer seq a client sends in Spec and SpecSeq
MaxSeqReauth == 3      \* largest integer seq a client sends in SpecReauth
MaxCells == 5          \* no new cell is carved once this many cells exist
MaxCellsAsk == 6       \* the same cap where expansions are what is checked (SpecAsk)
MaxCellsGrow == 10     \* the same cap where a room's own door is expanded (SpecGrow)
MaxLog == 3            \* the longest action log the replay harness runs
Reach == 1             \* cells are carved at most this far from the hub, on each axis
SeqScale == 2          \* a seq is held in units of 1/SeqScale
Expires1 == 125        \* the time session s1 expires
ChunkSize == 3         \* CHUNK_SIZE, 64 in the source: the side of a chunk
MaxDoors == 1          \* placeDoors makes at most this many doors where every roll is tried

(* ------------------------- program constants -------------------------- *)
MoveCooldownMs == 250
TurnCooldownMs == 0
MinimapRadius == 12    \* the radius view passes to getDiscoveredInRadius
CHUNK_SIZE == 64        \* the side of a chunk of the world
EDGE_WALL == 0         \* the edge encoding inside the chunk arrays
EDGE_OPEN == 1
EDGE_DOOR == 2
RoomAttempts == 10     \* attempts of carveRooms

Dirs == <<"N", "E", "S", "W">>
DirSet == {"N", "E", "S", "W"}
Traversable == {"open", "door_unlocked", "lever_secret"}

VARIABLES
  edges,         \* edge_overrides: <<x,y,dir>> -> [edgeType, meta]
  cells,         \* cell_overrides: <<x,y>> -> [kind, areaId]
  hubOrder,      \* the order Rng32 shuffles the hub perimeter into
  hubDoorCount,  \* 1 or 2: the door count Rng32 draws for the hub
  now,           \* Date.now()
  conn,          \* connection -> ConnState
  chars,         \* user -> the active character's row (characters + character_position)
  disc,          \* discovered_cells_global
  sent,          \* the replies to the last frame, in the order sent
  last,          \* history: the last frame handled and the branch that answered it
  moveOkAt,      \* history: connection -> time of its latest successful move, or -1
  race,          \* the edge two concurrent movement queries resolve, and their Rng32 draws
  proc,          \* query process -> its position in getEdgeOverride and its locals
  carves,        \* history: how many transactions carved a cell
  asked,         \* history: the last query put to the oracle
  twin,          \* the replay harness: both world ids, the log, what the first run yielded
  hand,          \* the move handler that a failure interrupted, if any
  env            \* process.env: the settings CONFIG reads

(* ------------------------------ helpers ------------------------------- *)
opposite(dir) ==
  IF dir = "N" THEN "S" ELSE IF dir = "S" THEN "N" ELSE IF dir = "E" THEN "W" ELSE "E"

step(x, y, dir) ==
  IF dir = "N" THEN [nx |-> x, ny |-> y - 1]
  ELSE IF dir = "S" THEN [nx |-> x, ny |-> y + 1]
  ELSE IF dir = "E" THEN [nx |-> x + 1, ny |-> y]
  ELSE [nx |-> x - 1, ny |-> y]

\* id('d'): an opaque fresh identifier
NewDoorId == "d"

EmptyMeta == [none |-> TRUE]
DoorMeta(doorId, frontier) == [doorId |-> doorId, frontier |-> frontier]

\* meta0.frontier of parseEdgeMeta/normalizeMeta: true only for a boolean true
MetaFrontier(meta) == "frontier" \in DOMAIN meta /\ meta.frontier
\* meta.doorId ?? id('d')
MetaDoorId(meta) == IF "doorId" \in DOMAIN meta THEN meta.doorId ELSE NewDoorId

\* const r = v; followed by the statements F(r): v is computed once, before F is
Let(v, F(_)) == CHOOSE w \in {F(r) : r \in {v}} : TRUE

(* --------------------------- overlay store ---------------------------- *)
\* The rows of edge_overrides and cell_overrides, as total functions over the
\* coordinates the model can touch; edgeType / kind "none" stands for no row.
\* A store value S is [edges |-> ..., cells |-> ...].
CarveLo == 0 - Reach
CarveHi == 1 + Reach
XR == (CarveLo - 2)..(CarveHi + 2)
NoEdge == [edgeType |-> "none", meta |-> EmptyMeta]
NoCell == [kind |-> "none", areaId |-> [tag |-> "none", x |-> 0, y |-> 0]]

HasEdge(S, x, y, dir) == S.edges[x][y][dir].edgeType # "none"
EdgeRow(S, x, y, dir) == S.edges[x][y][dir]
getCellMeta(S, x, y) == S.cells[x][y].kind # "none"
CellRow(S, x, y) == S.cells[x][y]

\* mutant of writeEdgeBothWays: the mirror row is not written
writeEdgeBothWays_OneSide(S, x, y, dir, edgeType, meta) ==
  [S EXCEPT !.edges[x][y][dir] = [edgeType |-> edgeType, meta |-> meta]]

writeEdgeBothWays(S, x, y, dir, edgeType, meta) ==
  LET n == step(x, y, dir)
      row == [edgeType |-> edgeType, meta |-> meta]
      E1 == [S.edges EXCEPT ![x][y][dir] = row]
      E2 == [E1 EXCEPT ![n.nx][n.ny][opposite(dir)] = row]
  IN [S EXCEPT !.edges = E2]

\* stmtUpsertEdge.run: one row
upsertEdge(S, x, y, dir, edgeType, meta) ==
  [S EXCEPT !.edges[x][y][dir] = [edgeType |-> edgeType, meta |-> meta]]

upsertCell(S, x, y, kind, areaId) ==
  [S EXCEPT !.cells[x][y] = [kind |-> kind, areaId |-> areaId]]

HubCells == << <<0, 0>>, <<1, 0>>, <<0, 1>>, <<1, 1>> >>

Perimeter ==
  << [x |-> 0, y |-> 0, dir |-> "N"], [x |-> 1, y |-> 0, dir |-> "N"],
     [x |-> 0, y |-> 1, dir |-> "S"], [x |-> 1, y |-> 1, dir |-> "S"],
     [x |-> 0, y |-> 0, dir |-> "W"], [x |-> 0, y |-> 1, dir |-> "W"],
     [x |-> 1, y |-> 0, dir |-> "E"], [x |-> 1, y |-> 1, dir |-> "E"] >>

RECURSIVE HubCellLoop(_, _)
HubCellLoop(S, i) ==
  IF i > Len(HubCells) THEN S
  ELSE LET c == HubCells[i]
       IN HubCellLoop(IF getCellMeta(S, c[1], c[2]) THEN S
                      ELSE upsertCell(S, c[1], c[2], "hub_room", [tag |-> "hub_room", x |-> 0, y |-> 0]), i + 1)

\* for (const p of perimeter): walls where no edge row exists yet
RECURSIVE WallLoop(_, _, _)
WallLoop(S, ps, i) ==
  IF i > Len(ps) THEN S
  ELSE LET p == ps[i]
       IN WallLoop(IF HasEdge(S, p.x, p.y, p.dir) THEN S
                   ELSE writeEdgeBothWays(S, p.x, p.y, p.dir, "wall", EmptyMeta), ps, i + 1)

\* for (const c of candidates): turn the first doorCount walls into frontier doors
RECURSIVE HubDoorLoop(_, _, _, _, _)
HubDoorLoop(S, cands, doorCount, i, written) ==
  IF i > Len(cands) \/ written >= doorCount THEN [S |-> S, written |-> written]
  ELSE LET c == cands[i]
       IN IF ~HasEdge(S, c.x, c.y, c.dir) THEN HubDoorLoop(S, cands, doorCount, i + 1, written)
          ELSE IF EdgeRow(S, c.x, c.y, c.dir).edgeType # "wall"
               THEN HubDoorLoop(S, cands, doorCount, i + 1, written)
          ELSE HubDoorLoop(
                 writeEdgeBothWays(S, c.x, c.y, c.dir, "door_unlocked", DoorMeta(NewDoorId, TRUE)),
                 cands, doorCount, i + 1, written + 1)

\* mutant of ensureSeedHub: the interior edges are not written
ensureSeedHub_NoInterior(S) ==
  LET S1 == HubCellLoop(S, 1)
      S6 == WallLoop(S1, Perimeter, 1)
  IN Let(HubDoorLoop(S6, hubOrder, hubDoorCount, 1, 0), LAMBDA r :
       IF r.written = 0
       THEN writeEdgeBothWays(r.S, 1, 0, "E", "door_unlocked", DoorMeta(NewDoorId, TRUE))
       ELSE r.S)

ensureSeedHub(S) ==
  LET S1 == HubCellLoop(S, 1)
      S2 == writeEdgeBothWays(S1, 0, 0, "E", "open", EmptyMeta)
      S3 == writeEdgeBothWays(S2, 0, 0, "S", "open", EmptyMeta)
      S4 == writeEdgeBothWays(S3, 1, 0, "S", "open", EmptyMeta)
      S5 == writeEdgeBothWays(S4, 0, 1, "E", "open", EmptyMeta)
      S6 == WallLoop(S5, Perimeter, 1)
  IN Let(HubDoorLoop(S6, hubOrder, hubDoorCount, 1, 0), LAMBDA r :
       IF r.written = 0
       THEN writeEdgeBothWays(r.S, 1, 0, "E", "door_unlocked", DoorMeta(NewDoorId, TRUE))
       ELSE r.S)

(* ------------------------- frontier expansion ------------------------- *)
\* The draws one expansion takes from its Rng32, in the order the code takes them:
\*   target   - float01() < 0.72 ? 'corridor' : 'room'        (overlays.ts:311)
\*   roomOff  - rng.int(0, 2), the anchor offset of a room      (overlays.ts:389-402)
\*   extraDoor- float01() < 0.55                                (overlays.ts:462)
\*   doorRot  - the shuffle of the room's door candidates; only the candidate
\*              the loop reaches first matters, so a rotation stands for it
\*   exits    - the corridor's shuffle and exit count: the positions (in
\*              candidates) of the first `exits` shuffled entries (overlays.ts:345-351)
ExitChoices == {e \in SUBSET (1..3) : Cardinality(e) <= 2}

CorridorDraws ==
  {[target |-> "corridor", roomOff |-> 0, extraDoor |-> FALSE, doorRot |-> 0, exits |-> e] :
     e \in ExitChoices}

RoomDraws ==
  {[target |-> "room", roomOff |-> o, extraDoor |-> FALSE, doorRot |-> 0, exits |-> e] :
     o \in 0..1, e \in ExitChoices}
  \cup
  {[target |-> "room", roomOff |-> o, extraDoor |-> TRUE, doorRot |-> k, exits |-> e] :
     o \in 0..1, k \in 0..6, e \in ExitChoices}

RngDraws == CorridorDraws \cup RoomDraws
NoDraw == [target |-> "corridor", roomOff |-> 0, extraDoor |-> FALSE, doorRot |-> 0, exits |-> {}]

\* mutant of CorridorEdgeLoop: an edge that is neither the way back nor an exit
\* gets no row
RECURSIVE CorridorEdgeLoop_NoWalls(_, _, _, _, _, _, _)
CorridorEdgeLoop_NoWalls(S, cx, cy, cameFrom, backDoorId, exitSet, i) ==
  IF i > Len(Dirs) THEN S
  ELSE LET d == Dirs[i]
           S1 == IF d = cameFrom
                 THEN writeEdgeBothWays(S, cx, cy, d, "door_unlocked", DoorMeta(backDoorId, FALSE))
                 ELSE IF d \in exitSet
                 THEN writeEdgeBothWays(S, cx, cy, d, "door_unlocked", DoorMeta(NewDoorId, TRUE))
                 ELSE S
       IN CorridorEdgeLoop_NoWalls(S1, cx, cy, cameFrom, backDoorId, exitSet, i + 1)

\* for (const d of dirs) in placeCorridorCell
RECURSIVE CorridorEdgeLoop(_, _, _, _, _, _, _)
CorridorEdgeLoop(S, cx, cy, cameFrom, backDoorId, exitSet, i) ==
  IF i > Len(Dirs) THEN S
  ELSE LET d == Dirs[i]
           S1 == IF d = cameFrom
                 THEN writeEdgeBothWays(S, cx, cy, d, "door_unlocked", DoorMeta(backDoorId, FALSE))
                 ELSE IF d \in exitSet
                 THEN writeEdgeBothWays(S, cx, cy, d, "door_unlocked", DoorMeta(NewDoorId, TRUE))
                 ELSE writeEdgeBothWays(S, cx, cy, d, "wall", EmptyMeta)
       IN CorridorEdgeLoop(S1, cx, cy, cameFrom, backDoorId, exitSet, i + 1)

\* mutant of placeCorridorCell: a cell that is carved already is written again
placeCorridorCell_Rewrites(S, cx, cy, cameFrom, backDoorId, rnd) ==
  LET S1 == upsertCell(S, cx, cy, "corridor", [tag |-> "c", x |-> cx, y |-> cy])
      candidates == SelectSeq(Dirs, LAMBDA d : d # cameFrom)
      exitSet == {candidates[i] : i \in rnd.exits}
  IN CorridorEdgeLoop(S1, cx, cy, cameFrom, backDoorId, exitSet, 1)

placeCorridorCell(S, cx, cy, cameFrom, backDoorId, rnd) ==
  IF getCellMeta(S, cx, cy) THEN S
  ELSE LET S1 == upsertCell(S, cx, cy, "corridor", [tag |-> "c", x |-> cx, y |-> cy])
           candidates == SelectSeq(Dirs, LAMBDA d : d # cameFrom)
           exitSet == {candidates[i] : i \in rnd.exits}
       IN CorridorEdgeLoop(S1, cx, cy, cameFrom, backDoorId, exitSet, 1)

RECURSIVE RoomCellLoop(_, _, _, _)
RoomCellLoop(S, cs, areaId, i) ==
  IF i > Len(cs) THEN S
  ELSE RoomCellLoop(upsertCell(S, cs[i][1], cs[i][2], "room", areaId), cs, areaId, i + 1)

\* for (const p of doorCandidates): the first wall becomes a frontier door
RECURSIVE ExtraDoorLoop(_, _, _)
ExtraDoorLoop(S, ps, i) ==
  IF i > Len(ps) THEN S
  ELSE LET p == ps[i]
       IN IF ~HasEdge(S, p.x, p.y, p.dir) THEN ExtraDoorLoop(S, ps, i + 1)
          ELSE IF EdgeRow(S, p.x, p.y, p.dir).edgeType # "wall" THEN ExtraDoorLoop(S, ps, i + 1)
          ELSE writeEdgeBothWays(S, p.x, p.y, p.dir, "door_unlocked", DoorMeta(NewDoorId, TRUE))

Rotate(s, k) == SubSeq(s, k + 1, Len(s)) \o SubSeq(s, 1, k)

\* mutant of PlaceRoomAt: the edges between the four cells of the room are not
\* written
PlaceRoomAt_NoInterior(S, fromX, fromY, dir, doorId, rnd, ex, ey, x0, y0) ==
  LET rcells == << <<x0, y0>>, <<x0 + 1, y0>>, <<x0, y0 + 1>>, <<x0 + 1, y0 + 1>> >>
      includesEntrance == \E i \in 1..4 : rcells[i] = <<ex, ey>>
      overlaps == \E i \in 1..4 : getCellMeta(S, rcells[i][1], rcells[i][2])
      perimeterEdges ==
        << [x |-> x0, y |-> y0, dir |-> "N"], [x |-> x0 + 1, y |-> y0, dir |-> "N"],
           [x |-> x0, y |-> y0 + 1, dir |-> "S"], [x |-> x0 + 1, y |-> y0 + 1, dir |-> "S"],
           [x |-> x0, y |-> y0, dir |-> "W"], [x |-> x0, y |-> y0 + 1, dir |-> "W"],
           [x |-> x0 + 1, y |-> y0, dir |-> "E"], [x |-> x0 + 1, y |-> y0 + 1, dir |-> "E"] >>
      S1 == RoomCellLoop(S, rcells, [tag |-> "r", x |-> x0, y |-> y0], 1)
      S6 == WallLoop(S1, perimeterEdges, 1)
      S7 == writeEdgeBothWays(S6, fromX, fromY, dir, "door_unlocked", DoorMeta(doorId, FALSE))
      doorCandidates ==
        SelectSeq(perimeterEdges, LAMBDA p : ~(p.x = ex /\ p.y = ey /\ p.dir = opposite(dir)))
  IN IF ~includesEntrance THEN [ok |-> FALSE, S |-> S]
     ELSE IF overlaps THEN [ok |-> FALSE, S |-> S]
     ELSE [ok |-> TRUE,
           S |-> Let(S7, LAMBDA T :
                   IF rnd.extraDoor THEN ExtraDoorLoop(T, Rotate(doorCandidates, rnd.doorRot), 1)
                   ELSE T)]

\* mutant of PlaceRoomAt: the room is placed over cells that are carved already
PlaceRoomAt_Overlaps(S, fromX, fromY, dir, doorId, rnd, ex, ey, x0, y0) ==
  LET rcells == << <<x0, y0>>, <<x0 + 1, y0>>, <<x0, y0 + 1>>, <<x0 + 1, y0 + 1>> >>
      includesEntrance == \E i \in 1..4 : rcells[i] = <<ex, ey>>
      perimeterEdges ==
        << [x |-> x0, y |-> y0, dir |-> "N"], [x |-> x0 + 1, y |-> y0, dir |-> "N"],
           [x |-> x0, y |-> y0 + 1, dir |-> "S"], [x |-> x0 + 1, y |-> y0 + 1, dir |-> "S"],
           [x |-> x0, y |-> y0, dir |-> "W"], [x |-> x0, y |-> y0 + 1, dir |-> "W"],
           [x |-> x0 + 1, y |-> y0, dir |-> "E"], [x |-> x0 + 1, y |-> y0 + 1, dir |-> "E"] >>
      S1 == RoomCellLoop(S, rcells, [tag |-> "r", x |-> x0, y |-> y0], 1)
      S2 == writeEdgeBothWays(S1, x0, y0, "E", "open", EmptyMeta)
      S3 == writeEdgeBothWays(S2, x0, y0, "S", "open", EmptyMeta)
      S4 == writeEdgeBothWays(S3, x0 + 1, y0, "S", "open", EmptyMeta)
      S5 == writeEdgeBothWays(S4, x0, y0 + 1, "E", "open", EmptyMeta)
      S6 == WallLoop(S5, perimeterEdges, 1)
      S7 == writeEdgeBothWays(S6, fromX, fromY, dir, "door_unlocked", DoorMeta(doorId, FALSE))
      doorCandidates ==
        SelectSeq(perimeterEdges, LAMBDA p : ~(p.x = ex /\ p.y = ey /\ p.dir = opposite(dir)))
  IN IF ~includesEntrance THEN [ok |-> FALSE, S |-> S]
     ELSE [ok |-> TRUE,
           S |-> Let(S7, LAMBDA T :
                   IF rnd.extraDoor THEN ExtraDoorLoop(T, Rotate(doorCandidates, rnd.doorRot), 1)
                   ELSE T)]

\* tryPlaceRoom2x2FromDoor once the entrance (ex, ey) and the anchor (x0, y0) are
\* known; returns [ok |-> BOOLEAN, S |-> store]
PlaceRoomAt(S, fromX, fromY, dir, doorId, rnd, ex, ey, x0, y0) ==
  LET rcells == << <<x0, y0>>, <<x0 + 1, y0>>, <<x0, y0 + 1>>, <<x0 + 1, y0 + 1>> >>
      includesEntrance == \E i \in 1..4 : rcells[i] = <<ex, ey>>
      overlaps == \E i \in 1..4 : getCellMeta(S, rcells[i][1], rcells[i][2])
      perimeterEdges ==
        << [x |-> x0, y |-> y0, dir |-> "N"], [x |-> x0 + 1, y |-> y0, dir |-> "N"],
           [x |-> x0, y |-> y0 + 1, dir |-> "S"], [x |-> x0 + 1, y |-> y0 + 1, dir |-> "S"],
           [x |-> x0, y |-> y0, dir |-> "W"], [x |-> x0, y |-> y0 + 1, dir |-> "W"],
           [x |-> x0 + 1, y |-> y0, dir |-> "E"], [x |-> x0 + 1, y |-> y0 + 1, dir |-> "E"] >>
      S1 == RoomCellLoop(S, rcells, [tag |-> "r", x |-> x0, y |-> y0], 1)
      S2 == writeEdgeBothWays(S1, x0, y0, "E", "open", EmptyMeta)
      S3 == writeEdgeBothWays(S2, x0, y0, "S", "open", EmptyMeta)
      S4 == writeEdgeBothWays(S3, x0 + 1, y0, "S", "open", EmptyMeta)
      S5 == writeEdgeBothWays(S4, x0, y0 + 1, "E", "open", EmptyMeta)
      S6 == WallLoop(S5, perimeterEdges, 1)
      S7 == writeEdgeBothWays(S6, fromX, fromY, dir, "door_unlocked", DoorMeta(doorId, FALSE))
      doorCandidates ==
        SelectSeq(perimeterEdges, LAMBDA p : ~(p.x = ex /\ p.y = ey /\ p.dir = opposite(dir)))
  IN IF ~includesEntrance THEN [ok |-> FALSE, S |-> S]
     ELSE IF overlaps THEN [ok |-> FALSE, S |-> S]
     ELSE [ok |-> TRUE,
           S |-> Let(S7, LAMBDA T :
                   IF rnd.extraDoor THEN ExtraDoorLoop(T, Rotate(doorCandidates, rnd.doorRot), 1)
                   ELSE T)]

\* returns [ok |-> BOOLEAN, S |-> store]
tryPlaceRoom2x2FromDoor(S, fromX, fromY, dir, doorId, rnd) ==
  LET entrance == step(fromX, fromY, dir)
      ex == entrance.nx
      ey == entrance.ny
  IN PlaceRoomAt(S, fromX, fromY, dir, doorId, rnd, ex, ey,
                 IF dir = "N" \/ dir = "S" THEN ex - rnd.roomOff ELSE IF dir = "W" THEN ex - 1 ELSE ex,
                 IF dir = "N" THEN ey - 1 ELSE IF dir = "S" THEN ey ELSE ey - rnd.roomOff)

\* mutant of ExpandCarve: the kind of the source cell is not looked at
ExpandCarve_NoForce(S, x, y, dir, doorId, srcKind, rnd) ==
  LET n == step(x, y, dir)
  IN Let(IF rnd.target = "room" THEN tryPlaceRoom2x2FromDoor(S, x, y, dir, doorId, rnd)
         ELSE [ok |-> FALSE, S |-> S],
         LAMBDA room :
           IF room.ok THEN room.S
           ELSE writeEdgeBothWays(placeCorridorCell(S, n.nx, n.ny, opposite(dir), doorId, rnd),
                                  x, y, dir, "door_unlocked", DoorMeta(doorId, FALSE)))

\* the transaction body of expandFrontierDoor once the destination is known to
\* be absent: carve a room or, failing that, a corridor cell
ExpandCarve(S, x, y, dir, doorId, srcKind, rnd) ==
  LET n == step(x, y, dir)
      forceCorridor == srcKind = "hub_room" \/ srcKind = "room"
      target == IF forceCorridor THEN "corridor" ELSE rnd.target
  IN Let(IF target = "room" THEN tryPlaceRoom2x2FromDoor(S, x, y, dir, doorId, rnd)
         ELSE [ok |-> FALSE, S |-> S],
         LAMBDA room :
           IF room.ok THEN room.S
           ELSE writeEdgeBothWays(placeCorridorCell(S, n.nx, n.ny, opposite(dir), doorId, rnd),
                                  x, y, dir, "door_unlocked", DoorMeta(doorId, FALSE)))

\* mutant of ExpandTx: when the destination exists already, the door keeps its
\* frontier flag
ExpandTx_KeepsFrontier(S, x, y, dir, meta, srcKind, rnd) ==
  IF getCellMeta(S, step(x, y, dir).nx, step(x, y, dir).ny)
  THEN writeEdgeBothWays(S, x, y, dir, "door_unlocked", DoorMeta(MetaDoorId(meta), TRUE))
  ELSE ExpandCarve(S, x, y, dir, MetaDoorId(meta), srcKind, rnd)

\* the transaction body of expandFrontierDoor; srcKind is srcMeta?.kind read before it
ExpandTx(S, x, y, dir, meta, srcKind, rnd) ==
  IF getCellMeta(S, step(x, y, dir).nx, step(x, y, dir).ny)
  THEN writeEdgeBothWays(S, x, y, dir, "door_unlocked", DoorMeta(MetaDoorId(meta), FALSE))
  ELSE ExpandCarve(S, x, y, dir, MetaDoorId(meta), srcKind, rnd)

SrcKind(S, x, y) == IF getCellMeta(S, x, y) THEN CellRow(S, x, y).kind ELSE "null"

expandFrontierDoor(S, x, y, dir, meta, rnd) ==
  LET n == step(x, y, dir)
  IN IF getCellMeta(S, n.nx, n.ny)
     THEN writeEdgeBothWays(S, x, y, dir, "door_unlocked", DoorMeta(MetaDoorId(meta), FALSE))
     ELSE ExpandTx(S, x, y, dir, meta, SrcKind(S, x, y), rnd)

\* row0 is a frontier door: the movement query expands it
IsFrontierDoor(S, x, y, dir) ==
  /\ HasEdge(S, x, y, dir)
  /\ EdgeRow(S, x, y, dir).edgeType = "door_unlocked"
  /\ MetaFrontier(EdgeRow(S, x, y, dir).meta)

\* mutant of getEdgeOverride: a frontier door is expanded whatever the purpose
getEdgeOverride_AnyPurpose(S, x, y, dir, purpose, rnd) ==
  Let(IF purpose # "minimap" THEN ensureSeedHub(S) ELSE S, LAMBDA S1 :
    Let(IF IsFrontierDoor(S1, x, y, dir)
        THEN expandFrontierDoor(S1, x, y, dir, EdgeRow(S1, x, y, dir).meta, rnd)
        ELSE S1,
        LAMBDA S2 :
          [S |-> S2,
           ov |-> IF HasEdge(S2, x, y, dir) THEN EdgeRow(S2, x, y, dir).edgeType ELSE "null"]))

\* mutant of getEdgeOverride: a frontier door is answered as it is stored,
\* without expansion
getEdgeOverride_NoExpand(S, x, y, dir, purpose, rnd) ==
  Let(IF purpose # "minimap" THEN ensureSeedHub(S) ELSE S, LAMBDA S1 :
    [S |-> S1,
     ov |-> IF HasEdge(S1, x, y, dir) THEN EdgeRow(S1, x, y, dir).edgeType ELSE "null"])

\* returns [S |-> store after the query, ov |-> the edge type, or "null"]
getEdgeOverride(S, x, y, dir, purpose, rnd) ==
  Let(IF purpose # "minimap" THEN ensureSeedHub(S) ELSE S, LAMBDA S1 :
    Let(IF purpose = "movement" /\ IsFrontierDoor(S1, x, y, dir)
        THEN expandFrontierDoor(S1, x, y, dir, EdgeRow(S1, x, y, dir).meta, rnd)
        ELSE S1,
        LAMBDA S2 :
          [S |-> S2,
           ov |-> IF HasEdge(S2, x, y, dir) THEN EdgeRow(S2, x, y, dir).edgeType ELSE "null"]))

\* WorldEngine.edgeType: returns [S, e]
edgeType(S, x, y, dir, purpose, rnd) ==
  Let(getEdgeOverride(S, x, y, dir, purpose, rnd), LAMBDA r :
    [S |-> r.S, e |-> IF r.ov # "null" THEN r.ov ELSE "wall"])

(* --------------------------- discovery store --------------------------- *)
\* discovered_cells_global: the set of discovered <<x, y>>; the discovered_at_ms
\* column is not modelled.
markDiscovered(D, x, y) == D \cup {<<x, y>>}

\* ORDER BY y ASC, x ASC
RECURSIVE SortYX(_)
SortYX(cs) ==
  IF cs = {} THEN <<>>
  ELSE LET m == CHOOSE c \in cs :
                  \A d \in cs : c[2] < d[2] \/ (c[2] = d[2] /\ c[1] <= d[1])
       IN <<m>> \o SortYX(cs \ {m})

getDiscoveredInRadius(D, cx, cy, radius) ==
  SortYX({c \in D : /\ c[1] >= cx - radius /\ c[1] <= cx + radius
                    /\ c[2] >= cy - radius /\ c[2] <= cy + radius})

(* ----------------------------- world engine ---------------------------- *)
oppositeOf(d) ==
  IF d = "N" THEN "S" ELSE IF d = "S" THEN "N" ELSE IF d = "E" THEN "W" ELSE "E"

moveDirToAbs(face, moveDir) ==
  IF moveDir = "F" THEN face ELSE IF moveDir = "B" THEN oppositeOf(face) ELSE moveDir

\* mutant of canTraverseAbs: a wall is traversable too
canTraverseAbs_ThroughWalls(S, x, y, absDir, rnd) ==
  Let(edgeType(S, x, y, absDir, "movement", rnd), LAMBDA r :
    [S |-> r.S, e |-> r.e,
     ok |-> r.e = "open" \/ r.e = "door_unlocked" \/ r.e = "lever_secret" \/ r.e = "wall"])

\* returns [S, e, ok]
canTraverseAbs(S, x, y, absDir, rnd) ==
  Let(edgeType(S, x, y, absDir, "movement", rnd), LAMBDA r :
    [S |-> r.S, e |-> r.e, ok |-> r.e = "open" \/ r.e = "door_unlocked" \/ r.e = "lever_secret"])

\* the four edge queries of addCell, in the order N, E, S, W; A is [S, edges]
RECURSIVE CellEdgeLoop(_, _, _, _)
CellEdgeLoop(A, x, y, i) ==
  IF i > Len(Dirs) THEN A
  ELSE Let(edgeType(A.S, x, y, Dirs[i], "visibility", NoDraw), LAMBDA r :
         CellEdgeLoop([S |-> r.S, edges |-> [A.edges EXCEPT ![Dirs[i]] = r.e]], x, y, i + 1))

\* addCell; R is [S, out]
addCell(R, x, y) ==
  IF \E i \in 1..Len(R.out) : R.out[i].x = x /\ R.out[i].y = y THEN R
  ELSE Let(CellEdgeLoop([S |-> R.S, edges |-> [d \in DirSet |-> "none"]], x, y, 1), LAMBDA A :
         [S |-> A.S, out |-> Append(R.out, [x |-> x, y |-> y, edges |-> A.edges])])

\* mutant of RayLoop: an unlocked door lets the ray pass
RECURSIVE RayLoop_ThroughDoors(_, _, _, _, _, _)
RayLoop_ThroughDoors(R, cx, cy, dir, d, depth) ==
  IF d >= depth THEN R
  ELSE Let(edgeType(R.S, cx, cy, dir, "visibility", NoDraw), LAMBDA forward :
         IF ~(forward.e = "open" \/ forward.e = "lever_secret" \/ forward.e = "door_unlocked")
         THEN [R EXCEPT !.S = forward.S]
         ELSE Let(addCell([R EXCEPT !.S = forward.S], step(cx, cy, dir).nx, step(cx, cy, dir).ny),
                  LAMBDA R1 :
                    RayLoop_ThroughDoors(R1, step(cx, cy, dir).nx, step(cx, cy, dir).ny, dir,
                                         d + 1, depth)))

\* for (let d = 0; d < depth; d++)
RECURSIVE RayLoop(_, _, _, _, _, _)
RayLoop(R, cx, cy, dir, d, depth) ==
  IF d >= depth THEN R
  ELSE Let(edgeType(R.S, cx, cy, dir, "visibility", NoDraw), LAMBDA forward :
         IF ~(forward.e = "open" \/ forward.e = "lever_secret")
         THEN [R EXCEPT !.S = forward.S]
         ELSE Let(addCell([R EXCEPT !.S = forward.S], step(cx, cy, dir).nx, step(cx, cy, dir).ny),
                  LAMBDA R1 :
                    RayLoop(R1, step(cx, cy, dir).nx, step(cx, cy, dir).ny, dir, d + 1, depth)))

\* for (const dir of dirs)
RECURSIVE RayDirLoop(_, _, _, _)
RayDirLoop(R, player, depth, i) ==
  IF i > Len(Dirs) THEN R
  ELSE Let(RayLoop(R, player.x, player.y, Dirs[i], 0, depth), LAMBDA R1 :
         RayDirLoop(R1, player, depth, i + 1))

computeOmniRays(S, player, depth) ==
  Let(addCell([S |-> S, out |-> <<>>], player.x, player.y), LAMBDA R0 :
    RayDirLoop(R0, player, depth, 1))

minimapCell(S, c) ==
  [x |-> c[1], y |-> c[2],
   edges |-> [d \in DirSet |-> edgeType(S, c[1], c[2], d, "minimap", NoDraw).e]]

\* WorldEngine.view: returns [S, view]
view(S, D, player, cooldowns) ==
  Let(computeOmniRays(S, player, 3), LAMBDA r :
    Let(getDiscoveredInRadius(D, player.x, player.y, MinimapRadius), LAMBDA discovered :
      [S |-> r.S,
       view |-> [you |-> player,
                 visibleCells |-> r.out,
                 minimapCells |-> [i \in 1..Len(discovered) |-> minimapCell(r.S, discovered[i])],
                 cooldowns |-> cooldowns]]))

\* stableHash is a function of the canonical form of its argument; the model
\* keeps the argument.
stableHash(payload) == [hashOf |-> payload]

\* WorldEngine.stateHash: returns [S, hash]
stateHash(S, D, player, cooldowns) ==
  Let(view(S, D, player, cooldowns), LAMBDA v :
    [S |-> v.S,
     hash |-> stableHash([you |-> v.view.you, cooldowns |-> v.view.cooldowns,
                          visible |-> v.view.visibleCells])])

\* Math.round(Math.sqrt(dx * dx + dy * dy) * CELL_FEET)
distanceFeetToHub(x, y) ==
  LET n == x * x + y * y
  IN CHOOSE r \in 0..(5 * (n + 1)) :
       /\ (r = 0 \/ (2 * r - 1) * (2 * r - 1) <= 100 * n)
       /\ 100 * n < (2 * r + 1) * (2 * r + 1)

(* ------------------------- sessions, characters ------------------------ *)
Users == {"u1", "u2"}
Conns == {"c1", "c2"}

\* The sessions table: devLogin issued s1 to u1 and s2 to u2 before the model's
\* time 0; s1 expires at Expires1, s2 after the clock's last value.
Sessions ==
  [s1 |-> [userId |-> "u1", expiresAt |-> Expires1],
   s2 |-> [userId |-> "u2", expiresAt |-> MaxNow + 1]]

\* returns [found, userId]: the row's user_id, whatever its expires_at
loadSession(sessionToken) ==
  IF sessionToken \in DOMAIN Sessions
  THEN [found |-> TRUE, userId |-> Sessions[sessionToken].userId]
  ELSE [found |-> FALSE, userId |-> "null"]

CharacterOf(u) == IF u = "u1" THEN "ch1" ELSE "ch2"
WorldId == "w"

\* the row devLogin creates for a new user
NewCharacter(u) ==
  [characterId |-> CharacterOf(u), worldId |-> WorldId, levelId |-> 1,
   x |-> 0, y |-> 0, face |-> "N", hp |-> 100]

loadActiveCharacter(C, userId) == C[userId]

\* mutant of savePosition: the cell is not written
savePosition_FaceOnly(C, userId, levelId, x, y, face) ==
  [C EXCEPT ![userId].face = face]

savePosition(C, userId, levelId, x, y, face) ==
  [C EXCEPT ![userId].levelId = levelId, ![userId].x = x, ![userId].y = y,
            ![userId].face = face]

(* ------------------------------ protocol ------------------------------- *)
\* A frame: json says whether JSON.parse succeeds; seqKind is "number" for a
\* finite number, "nonfinite" for one that overflows (1e999), "other" for a
\* missing or non-number seq.  A finite seq is held in units of 1/SeqScale, so
\* that seq % SeqScale = 0 exactly for the integers.  arg is the one payload
\* field the type reads (session_token, dir, face, world_id); extra says
\* whether the payload carries a further field, one its type does not define.
\* safeParseClient reads the fields it names and copies them into the message
\* it returns; it does not enumerate the payload's keys.
IsIntegerSeq(seq) == seq % SeqScale = 0

safeParseClient(m) ==
  IF m.seqKind # "number" THEN [ok |-> FALSE, err |-> "seq must be a number"]
  ELSE IF m.type = "auth"
    THEN (IF m.arg = "" THEN [ok |-> FALSE, err |-> "auth.session_token required"]
          ELSE [ok |-> TRUE, err |-> ""])
  ELSE IF m.type = "move"
    THEN (IF m.arg \in DirSet \/ m.arg = "F" \/ m.arg = "B" THEN [ok |-> TRUE, err |-> ""]
          ELSE [ok |-> FALSE, err |-> "move.dir must be N/E/S/W or F/B"])
  ELSE IF m.type = "turn"
    THEN (IF m.arg \in DirSet THEN [ok |-> TRUE, err |-> ""]
          ELSE [ok |-> FALSE, err |-> "turn.face must be N/E/S/W"])
  ELSE IF m.type = "join_world"
    THEN (IF m.arg = "" THEN [ok |-> FALSE, err |-> "join_world.world_id required"]
          ELSE [ok |-> TRUE, err |-> ""])
  ELSE IF m.type = "interact" \/ m.type = "use_egg" THEN [ok |-> TRUE, err |-> ""]
  ELSE [ok |-> FALSE, err |-> "unknown type"]

(* --------------------------- message handler --------------------------- *)
PlayerOf(active) ==
  [levelId |-> active.levelId, x |-> active.x, y |-> active.y, face |-> active.face,
   hp |-> active.hp]

Abs(n) == IF n < 0 THEN 0 - n ELSE n

\* the compass of the superseded sendWorldState; the one in force does not call it
approximateDirToHub(x, y) ==
  LET dx == 0 - x
      dy == 0 - y
  IN IF Abs(dx) > Abs(dy) THEN (IF dx > 0 THEN "E" ELSE "W")
     ELSE IF Abs(dy) > Abs(dx) THEN (IF dy > 0 THEN "S" ELSE "N")
     ELSE IF dx > 0 THEN "E" ELSE "W"

\* mutant of sendWorldState: the hash is taken before the view
sendWorldState_HashFirst(S, D, state, active) ==
  Let(markDiscovered(D, active.x, active.y), LAMBDA D1 :
    Let(stateHash(S, D1, PlayerOf(active), state.cooldowns), LAMBDA h :
      Let(view(h.S, D1, PlayerOf(active), state.cooldowns), LAMBDA v :
        [S |-> v.S, D |-> D1,
         msg |-> [type |-> "world_state",
                  you |-> v.view.you,
                  hub |-> [level |-> active.levelId, x |-> 0, y |-> 0,
                           distFeet |-> distanceFeetToHub(active.x, active.y),
                           direction |-> v.view.you.face],
                  cooldowns |-> v.view.cooldowns,
                  world_hash |-> h.hash,
                  visible_cells |-> v.view.visibleCells,
                  minimap_cells |-> v.view.minimapCells]])))

\* mutant of sendWorldState: every visible cell is marked discovered
sendWorldState_MarksVisible(S, D, state, active) ==
  Let(markDiscovered(D, active.x, active.y), LAMBDA D1 :
    Let(view(S, D1, PlayerOf(active), state.cooldowns), LAMBDA v :
      Let(stateHash(v.S, D1, PlayerOf(active), state.cooldowns), LAMBDA h :
        [S |-> h.S,
         D |-> D1 \cup {<<v.view.visibleCells[i].x, v.view.visibleCells[i].y>> :
                          i \in 1..Len(v.view.visibleCells)},
         msg |-> [type |-> "world_state",
                  you |-> v.view.you,
                  hub |-> [level |-> active.levelId, x |-> 0, y |-> 0,
                           distFeet |-> distanceFeetToHub(active.x, active.y),
                           direction |-> v.view.you.face],
                  cooldowns |-> v.view.cooldowns,
                  world_hash |-> h.hash,
                  visible_cells |-> v.view.visibleCells,
                  minimap_cells |-> v.view.minimapCells]])))

\* sendWorldState: returns [S, D, msg]
sendWorldState(S, D, state, active) ==
  Let(markDiscovered(D, active.x, active.y), LAMBDA D1 :
    Let(view(S, D1, PlayerOf(active), state.cooldowns), LAMBDA v :
      Let(stateHash(v.S, D1, PlayerOf(active), state.cooldowns), LAMBDA h :
        [S |-> h.S, D |-> D1,
         msg |-> [type |-> "world_state",
                  you |-> v.view.you,
                  hub |-> [level |-> active.levelId, x |-> 0, y |-> 0,
                           distFeet |-> distanceFeetToHub(active.x, active.y),
                           direction |-> v.view.you.face],
                  cooldowns |-> v.view.cooldowns,
                  world_hash |-> h.hash,
                  visible_cells |-> v.view.visibleCells,
                  minimap_cells |-> v.view.minimapCells]])))

\* mutant of move: a blocked move marks the cell behind the edge discovered
move_BlockedDiscovers(S, D, player, cooldowns, moveDir, t, rnd) ==
  LET absDir == moveDirToAbs(player.face, moveDir)
      n == step(player.x, player.y, absDir)
      next == [player EXCEPT !.x = n.nx, !.y = n.ny]
  IN IF t < cooldowns.moveReadyAtMs
     THEN [S |-> S, D |-> D, ok |-> FALSE, reason |-> "move_cooldown", player |-> player,
           absDir |-> absDir, e |-> "none"]
     ELSE Let(canTraverseAbs(S, player.x, player.y, absDir, rnd), LAMBDA ct :
            IF ~ct.ok
            THEN [S |-> ct.S, D |-> markDiscovered(D, next.x, next.y), ok |-> FALSE,
                  reason |-> "blocked", player |-> player, absDir |-> absDir, e |-> ct.e]
            ELSE [S |-> ct.S, D |-> markDiscovered(D, next.x, next.y), ok |-> TRUE,
                  reason |-> "", player |-> next, absDir |-> absDir, e |-> ct.e])

\* mutant of move: a cardinal moveDir becomes the facing
move_CardinalFaces(S, D, player, cooldowns, moveDir, t, rnd) ==
  LET absDir == moveDirToAbs(player.face, moveDir)
      n == step(player.x, player.y, absDir)
      next == [player EXCEPT !.x = n.nx, !.y = n.ny,
                             !.face = IF moveDir \in DirSet THEN moveDir ELSE @]
  IN IF t < cooldowns.moveReadyAtMs
     THEN [S |-> S, D |-> D, ok |-> FALSE, reason |-> "move_cooldown", player |-> player,
           absDir |-> absDir, e |-> "none"]
     ELSE Let(canTraverseAbs(S, player.x, player.y, absDir, rnd), LAMBDA ct :
            IF ~ct.ok
            THEN [S |-> ct.S, D |-> D, ok |-> FALSE, reason |-> "blocked", player |-> player,
                  absDir |-> absDir, e |-> ct.e]
            ELSE [S |-> ct.S, D |-> markDiscovered(D, next.x, next.y), ok |-> TRUE,
                  reason |-> "", player |-> next, absDir |-> absDir, e |-> ct.e])

\* WorldEngine.move: returns [S, D, ok, reason, player, absDir, e]
move(S, D, player, cooldowns, moveDir, t, rnd) ==
  LET absDir == moveDirToAbs(player.face, moveDir)
      n == step(player.x, player.y, absDir)
      next == [player EXCEPT !.x = n.nx, !.y = n.ny]
  IN IF t < cooldowns.moveReadyAtMs
     THEN [S |-> S, D |-> D, ok |-> FALSE, reason |-> "move_cooldown", player |-> player,
           absDir |-> absDir, e |-> "none"]
     ELSE Let(canTraverseAbs(S, player.x, player.y, absDir, rnd), LAMBDA ct :
            IF ~ct.ok
            THEN [S |-> ct.S, D |-> D, ok |-> FALSE, reason |-> "blocked", player |-> player,
                  absDir |-> absDir, e |-> ct.e]
            ELSE [S |-> ct.S, D |-> markDiscovered(D, next.x, next.y), ok |-> TRUE,
                  reason |-> "", player |-> next, absDir |-> absDir, e |-> ct.e])

\* WorldEngine.turn: returns [ok, reason, player]
turn(player, cooldowns, face, t) ==
  IF t < cooldowns.turnReadyAtMs
  THEN [ok |-> FALSE, reason |-> "turn_cooldown", player |-> player]
  ELSE [ok |-> TRUE, reason |-> "", player |-> [player EXCEPT !.face = face]]

NoInfo == [stage |-> "none", ok |-> FALSE, absDir |-> "none", e |-> "none"]
Info(stage, ok) == [NoInfo EXCEPT !.stage = stage, !.ok = ok]

\* mutant of ActionResult: a refusal is reported as ok
ActionResult_AlwaysOk(ok, reason, seq) == [type |-> "action_result", ok |-> TRUE, seq |-> seq]

ActionResult(ok, reason, seq) ==
  IF ok THEN [type |-> "action_result", ok |-> TRUE, seq |-> seq]
  ELSE [type |-> "action_result", ok |-> FALSE, reason |-> reason, seq |-> seq]

\* mutant of NeedsAuth: the gate lets every message through
NeedsAuth_Never(st, m) == FALSE

\* if (!state.authed && msg.type !== 'auth')
NeedsAuth(st, m) == ~st.authed /\ m.type # "auth"

\* ws.on('message'): st is the connection's ConnState, C the characters, S the
\* overlay store, D the discovery set, t the value of Date.now().
\* Returns [st, C, S, D, out, info]: out is the replies sent, in order; info
\* records which branch answered.
\* mutant of CONFIG: the move cooldown is subtracted
CONFIG_MoveBackwards ==
  [moveCooldownMs |-> 0 - MoveCooldownMs,
   turnCooldownMs |-> IF env.TURN_COOLDOWN_MS.set THEN env.TURN_COOLDOWN_MS.value
                      ELSE TurnCooldownMs]

\* mutant of CONFIG: TURN_COOLDOWN_MS is not read
CONFIG_TurnDefault ==
  [moveCooldownMs |-> MoveCooldownMs, turnCooldownMs |-> TurnCooldownMs]

\* CONFIG: moveCooldownMs and turnCooldownMs are Number(process.env.X ?? default);
\* MOVE_COOLDOWN_MS is left unset
CONFIG ==
  [moveCooldownMs |-> MoveCooldownMs,
   turnCooldownMs |-> IF env.TURN_COOLDOWN_MS.set THEN env.TURN_COOLDOWN_MS.value
                      ELSE TurnCooldownMs]

OnMessage(st, C, S, D, t, m, rnd) ==
  LET parsed == safeParseClient(m)
      st1 == [st EXCEPT !.lastSeq = m.seq]
      same(stx, out, info) == [st |-> stx, C |-> C, S |-> S, D |-> D, out |-> out, info |-> info]
      \* auth
      sess == loadSession(m.arg)
      activeA == loadActiveCharacter(C, sess.userId)
      stA == [st1 EXCEPT !.authed = TRUE, !.userId = sess.userId,
                         !.characterId = activeA.characterId, !.worldId = activeA.worldId,
                         !.cooldowns = [moveReadyAtMs |-> t, turnReadyAtMs |-> t]]
      \* move, turn
      active == loadActiveCharacter(C, st1.userId)
      stM == [st1 EXCEPT !.cooldowns.moveReadyAtMs = t + CONFIG.moveCooldownMs]
      stT == [st1 EXCEPT !.cooldowns.turnReadyAtMs = t + CONFIG.turnCooldownMs]
  IN IF ~m.json
     THEN same(st, <<[type |-> "error", code |-> "bad_json"]>>, Info("bad_json", FALSE))
     ELSE IF ~parsed.ok
     THEN same(st, <<[type |-> "error", code |-> "bad_schema", message |-> parsed.err]>>,
               Info("bad_schema", FALSE))
     ELSE IF m.seq <= st.lastSeq
     THEN same(st, <<[type |-> "error", code |-> "bad_seq", seq |-> m.seq]>>,
               Info("bad_seq", FALSE))
     ELSE IF NeedsAuth(st1, m)
     THEN same(st1, <<[type |-> "auth_err", reason |-> "unauthenticated"]>>,
               Info("gate", FALSE))
     ELSE IF m.type = "auth"
     THEN (IF ~sess.found
           THEN same(st1, <<[type |-> "auth_err", reason |-> "invalid session"]>>,
                     Info("auth", FALSE))
           ELSE Let(sendWorldState(S, D, stA, activeA), LAMBDA wsA :
                  [st |-> stA, C |-> C, S |-> wsA.S, D |-> wsA.D,
                   out |-> <<[type |-> "auth_ok", user_id |-> sess.userId,
                              character_id |-> activeA.characterId,
                              world_id |-> activeA.worldId], wsA.msg>>,
                   info |-> Info("auth", TRUE)]))
     ELSE IF st1.userId = "undefined" \/ st1.characterId = "undefined" \/ st1.worldId = "undefined"
     THEN same(st1, <<[type |-> "error", code |-> "state"]>>, Info("state", FALSE))
     ELSE IF m.type = "move"
     THEN (IF t < st1.cooldowns.moveReadyAtMs
           THEN same(st1, <<ActionResult(FALSE, "move_cooldown", m.seq)>>, Info("move", FALSE))
           ELSE Let(move(S, D, PlayerOf(active), st1.cooldowns, m.arg, t, rnd), LAMBDA r :
                  IF ~r.ok
                  THEN [st |-> st1, C |-> C, S |-> r.S, D |-> r.D,
                        out |-> <<ActionResult(FALSE, r.reason, m.seq)>>,
                        info |-> [stage |-> "move", ok |-> FALSE, absDir |-> r.absDir, e |-> r.e]]
                  ELSE Let(sendWorldState(r.S, r.D, stM,
                             [active EXCEPT !.levelId = r.player.levelId, !.x = r.player.x,
                                            !.y = r.player.y, !.face = r.player.face,
                                            !.hp = r.player.hp]),
                           LAMBDA wsM :
                             [st |-> stM,
                              C |-> savePosition(C, st1.userId, r.player.levelId, r.player.x,
                                                 r.player.y, r.player.face),
                              S |-> wsM.S, D |-> wsM.D,
                              out |-> <<ActionResult(TRUE, "", m.seq), wsM.msg>>,
                              info |-> [stage |-> "move", ok |-> TRUE, absDir |-> r.absDir,
                                        e |-> r.e]])))
     ELSE IF m.type = "turn"
     THEN (IF t < st1.cooldowns.turnReadyAtMs
           THEN same(st1, <<ActionResult(FALSE, "turn_cooldown", m.seq)>>, Info("turn", FALSE))
           ELSE Let(sendWorldState(S, D, stT, [active EXCEPT !.face = m.arg]), LAMBDA wsT :
                  [st |-> stT,
                   C |-> savePosition(C, st1.userId, active.levelId, active.x, active.y, m.arg),
                   S |-> wsT.S, D |-> wsT.D,
                   out |-> <<ActionResult(TRUE, "", m.seq), wsT.msg>>,
                   info |-> Info("turn", TRUE)]))
     ELSE IF m.type = "interact" \/ m.type = "use_egg" \/ m.type = "join_world"
     THEN same(st1, <<ActionResult(FALSE, "not_implemented", m.seq)>>, Info("reserved", FALSE))
     ELSE same(st1, <<[type |-> "error", code |-> "unknown", seq |-> m.seq]>>,
               Info("unknown", FALSE))

(* ----------------------- the overlay provider alone -------------------- *)
Store == [edges |-> edges, cells |-> cells]

NumCells(S) == Cardinality({c \in XR \X XR : S.cells[c[1]][c[2]].kind # "none"})

\* the movement query would carve a new cell
WouldCarve(S, x, y, dir) ==
  LET S1 == ensureSeedHub(S)
      n == step(x, y, dir)
  IN IsFrontierDoor(S1, x, y, dir) /\ ~getCellMeta(S1, n.nx, n.ny)

\* the bound on growth: the cell to carve lies within reach and fewer than cap
\* cells exist
CarveAllowedUpTo(S, x, y, dir, cap) ==
  LET n == step(x, y, dir)
  IN /\ NumCells(S) < cap
     /\ n.nx \in CarveLo..CarveHi
     /\ n.ny \in CarveLo..CarveHi

CarveAllowed(S, x, y, dir) == CarveAllowedUpTo(S, x, y, dir, MaxCells)

\* the draws an expansion from (x, y) takes: no target draw when the source is a
\* hub or room cell (forceCorridor)
DrawsFor(S, x, y) ==
  IF SrcKind(S, x, y) \in {"hub_room", "room"} THEN CorridorDraws ELSE RngDraws

HubOrders ==
  { << [x |-> 1, y |-> 0, dir |-> "E"], [x |-> 0, y |-> 1, dir |-> "W"],
       [x |-> 1, y |-> 1, dir |-> "S"], [x |-> 0, y |-> 0, dir |-> "W"],
       [x |-> 1, y |-> 0, dir |-> "N"], [x |-> 1, y |-> 1, dir |-> "E"],
       [x |-> 0, y |-> 1, dir |-> "S"], [x |-> 0, y |-> 0, dir |-> "N"] >> }

vars == <<edges, cells, hubOrder, hubDoorCount, now, conn, chars, disc, sent, last, moveOkAt,
          race, proc, carves, asked, twin, hand, env>>
raceVars == <<race, proc, carves>>
harnessVars == <<twin, hand, env>>
serverVars == <<now, conn, chars, disc, sent, last, moveOkAt>>

NewConn ==
  [authed |-> FALSE, userId |-> "undefined", characterId |-> "undefined",
   worldId |-> "undefined", lastSeq |-> 0 - SeqScale,
   cooldowns |-> [moveReadyAtMs |-> 0, turnReadyAtMs |-> 0]]

NoFrame ==
  [json |-> FALSE, seqKind |-> "other", seq |-> 0, type |-> "none", arg |-> "", extra |-> FALSE]

InitServer ==
  /\ now = 0
  /\ conn = [c \in Conns |-> NewConn]
  /\ chars = [u \in Users |-> NewCharacter(u)]
  /\ disc = {}
  /\ sent = <<>>
  /\ last = [c |-> "none", m |-> NoFrame, info |-> NoInfo]
  /\ moveOkAt = [c \in Conns |-> 0 - 1]

Procs == {"p1", "p2"}
Idle == [pc |-> "idle", meta |-> EmptyMeta, srcKind |-> "null", expanded |-> FALSE, ret |-> "none"]

NoAsk == [x |-> 0, y |-> 0, dir |-> "N", purpose |-> "none", frontier |-> FALSE]
NoTwin == [phase |-> "off"]
NoHand == [pc |-> "idle"]
\* no variable of the environment is set: CONFIG takes its defaults
DefaultEnv == [TURN_COOLDOWN_MS |-> [set |-> FALSE, value |-> 0]]

\* no replay harness, no interrupted handler, the default configuration
InitPlain ==
  /\ asked = NoAsk
  /\ twin = NoTwin
  /\ hand = NoHand
  /\ env = DefaultEnv

\* no concurrent queries
InitNoRace ==
  /\ race = [x |-> 0, y |-> 0, dir |-> "N", rnd |-> NoDraw]
  /\ proc = [p \in Procs |-> Idle]
  /\ carves = 0
  /\ InitPlain

\* a world nothing has queried yet; doorCount is 1 + rng.int(0, 1)
InitStore(doorCounts) ==
  /\ edges = [x \in XR |-> [y \in XR |-> [d \in DirSet |-> NoEdge]]]
  /\ cells = [x \in XR |-> [y \in XR |-> NoCell]]
  /\ hubOrder \in HubOrders
  /\ hubDoorCount \in doorCounts

InitOverlay == InitStore({1, 2}) /\ InitServer /\ InitNoRace
Init == InitStore({2}) /\ InitServer /\ InitNoRace

\* engine.edgeType(level, x, y, dir, purpose) on the store.  A movement query
\* carves only through a frontier door; on any other edge it changes the store
\* exactly as a visibility query does.
\* cap bounds the cells, roomDraws the draws of an expansion that may carve a room.
QueryStore(x, y, dir, purpose, cap, roomDraws) ==
  LET carve == purpose = "movement" /\ WouldCarve(Store, x, y, dir)
  IN /\ carve => CarveAllowedUpTo(Store, x, y, dir, cap)
     /\ \E rnd \in (IF ~carve THEN {NoDraw}
                    ELSE IF DrawsFor(ensureSeedHub(Store), x, y) = CorridorDraws THEN CorridorDraws
                    ELSE CorridorDraws \cup roomDraws) :
          \E r \in {edgeType(Store, x, y, dir, purpose, rnd)} :
             /\ edges' = r.S.edges
             /\ cells' = r.S.cells
     /\ UNCHANGED <<hubOrder, hubDoorCount>>
     /\ UNCHANGED serverVars
     /\ UNCHANGED raceVars
     /\ UNCHANGED harnessVars

\* A query of the oracle.
Query(x, y, dir, purpose) ==
  QueryStore(x, y, dir, purpose, MaxCells, RoomDraws) /\ UNCHANGED asked

\* movement queries are issued from carved cells (the cell a character stands on)
MoveKeys ==
  LET S1 == ensureSeedHub(Store)
  IN {k \in (CarveLo..CarveHi) \X (CarveLo..CarveHi) \X DirSet : getCellMeta(S1, k[1], k[2])}

NextOverlay ==
  \/ \E k \in MoveKeys : Query(k[1], k[2], k[3], "movement")
  \/ \E dir \in DirSet : Query(0, 0, dir, "visibility")
  \/ \E dir \in DirSet : Query(0, 0, dir, "minimap")

SpecOverlay == InitOverlay /\ [][NextOverlay]_vars

(* ----------------------- claims on the overlay store -------------------- *)
\* every stored edge row has a mirror row with the same kind and metadata
EdgeSymmetry ==
  \A x \in XR, y \in XR, d \in DirSet :
    HasEdge(Store, x, y, d) =>
      LET n == step(x, y, d)
      IN n.nx \in XR /\ n.ny \in XR /\ edges[n.nx][n.ny][opposite(d)] = edges[x][y][d]

Inner == (CarveLo - 1)..(CarveHi + 1)

HubPerimeterDoors(S) ==
  {i \in 1..Len(Perimeter) :
     EdgeRow(S, Perimeter[i].x, Perimeter[i].y, Perimeter[i].dir).edgeType = "door_unlocked"}

\* the hub has been seeded and no frontier door has been expanded since
SeededUnexpanded ==
  /\ getCellMeta(Store, 0, 0)
  /\ NumCells(Store) = 4
  /\ \A i \in HubPerimeterDoors(Store) :
       MetaFrontier(EdgeRow(Store, Perimeter[i].x, Perimeter[i].y, Perimeter[i].dir).meta)

\* C9: seed-hub initialisation is idempotent.  After one or more non-minimap
\* queries with no expansion in between, the four hub cells are hub_room, the
\* interior edges are open, the perimeter is walls except 1 or 2 frontier doors,
\* and one more initialisation leaves the store as it is.
C9_SeedHubIdempotent ==
  SeededUnexpanded =>
    /\ \A i \in 1..Len(HubCells) : CellRow(Store, HubCells[i][1], HubCells[i][2]).kind = "hub_room"
    /\ EdgeRow(Store, 0, 0, "E").edgeType = "open" /\ EdgeRow(Store, 0, 0, "S").edgeType = "open"
    /\ EdgeRow(Store, 1, 0, "S").edgeType = "open" /\ EdgeRow(Store, 0, 1, "E").edgeType = "open"
    /\ \A i \in 1..Len(Perimeter) :
         EdgeRow(Store, Perimeter[i].x, Perimeter[i].y, Perimeter[i].dir).edgeType
           \in {"wall", "door_unlocked"}
    /\ Cardinality(HubPerimeterDoors(Store)) \in 1..2
    /\ ensureSeedHub(Store) = Store

\* C7: overlay precedence.  Whenever an edge override exists when edgeType is
\* called, edgeType returns that override's kind, for each of the purposes
\* movement, visibility and minimap.
C7_OverlayPrecedence ==
  \A x \in XR, y \in XR, d \in DirSet :
    HasEdge(Store, x, y, d) =>
      \A purpose \in {"movement", "visibility", "minimap"} :
        edgeType(Store, x, y, d, purpose, NoDraw).e = EdgeRow(Store, x, y, d).edgeType

(* ---------------- queries and snapshots, with their effects ------------- *)
\* row (x, y, d) of the edge table E is a door with the frontier flag set
FrontierIn(E, x, y, d) ==
  E[x][y][d].edgeType = "door_unlocked" /\ MetaFrontier(E[x][y][d].meta)

\* the draws of the expansions that try a room: an anchor offset, with or
\* without an extra door, two of the door orders, two of the exit sets the
\* corridor takes when the room does not fit
AskRoomDraws ==
  {d \in RoomDraws : d.doorRot \in {0, 3} /\ d.exits \in {{}, {1}}}

\* A query of the oracle, remembered.  frontier: the edge was a frontier door
\* when the query read it (row0), after the hub was seeded; the edge itself is
\* remembered when a movement query found it one.  Cells are carved north of
\* the hub only.
Ask(x, y, dir, purpose) ==
  /\ (purpose = "movement" /\ WouldCarve(Store, x, y, dir)) => step(x, y, dir).ny < 0
  /\ QueryStore(x, y, dir, purpose, MaxCellsAsk, AskRoomDraws)
  /\ \E fr \in {IsFrontierDoor(IF purpose # "minimap" THEN ensureSeedHub(Store) ELSE Store,
                                x, y, dir)} :
       asked' = IF purpose = "movement" /\ fr
                THEN [x |-> x, y |-> y, dir |-> dir, purpose |-> purpose, frontier |-> TRUE]
                ELSE [NoAsk EXCEPT !.purpose = purpose, !.frontier = fr]

\* the cooldowns of a connection that has just authenticated
FreshCooldowns == [moveReadyAtMs |-> now, turnReadyAtMs |-> now]

\* engine.view and then engine.stateHash for a player on cell (x, y) who has
\* discovered it, in the order sendWorldState calls them
Snapshot(x, y) ==
  LET player == [levelId |-> 1, x |-> x, y |-> y, face |-> "N", hp |-> 100]
  IN /\ \E v \in {view(Store, {<<x, y>>}, player, FreshCooldowns)} :
          \E h \in {stateHash(v.S, {<<x, y>>}, player, FreshCooldowns)} :
             /\ edges' = h.S.edges
             /\ cells' = h.S.cells
     /\ asked' = [NoAsk EXCEPT !.purpose = "snapshot"]
     /\ UNCHANGED <<hubOrder, hubDoorCount>>
     /\ UNCHANGED serverVars
     /\ UNCHANGED raceVars
     /\ UNCHANGED harnessVars

\* the cells a character can stand on: the spawn cell and every carved cell
StandCells ==
  {<<0, 0>>} \cup {c \in (CarveLo..CarveHi) \X (CarveLo..CarveHi) : getCellMeta(Store, c[1], c[2])}

\* the edges read without intent to move: the north edge of the spawn cell and
\* every frontier door of a carved cell
ReadKeys == {k \in MoveKeys : k = <<0, 0, "N">> \/ FrontierIn(edges, k[1], k[2], k[3])}

\* the edges a character tries to cross: every door of a carved cell, one wall
\* or door and one open edge of the spawn cell
TryKeys ==
  {k \in MoveKeys : \/ k = <<0, 0, "N">> \/ k = <<0, 0, "E">>
                    \/ edges[k[1]][k[2]][k[3]].edgeType = "door_unlocked"}

NextAsk ==
  \/ \E k \in TryKeys : Ask(k[1], k[2], k[3], "movement")
  \/ \E k \in ReadKeys : Ask(k[1], k[2], k[3], "visibility")
  \/ \E k \in ReadKeys : Ask(k[1], k[2], k[3], "minimap")
  \/ \E c \in StandCells : Snapshot(c[1], c[2])

SpecAsk == Init /\ [][NextAsk]_vars

\* the step wrote a corridor or room cell
CarvedCell ==
  \E x \in XR, y \in XR :
    cells'[x][y] # cells[x][y] /\ cells'[x][y].kind \in {"corridor", "room"}

\* the step took the frontier flag off a door
ClearedFrontier ==
  \E x \in XR, y \in XR, d \in DirSet : FrontierIn(edges, x, y, d) /\ ~FrontierIn(edges', x, y, d)

\* C11: edge queries with purpose visibility or minimap, and the snapshots
\* view/stateHash build from them, never trigger frontier expansion: they write
\* no corridor or room cell and clear no frontier flag.  A step that does either
\* is a movement query on an edge that was door_unlocked with frontier = true.
C11_OnlyMovementExpands ==
  [][(CarvedCell \/ ClearedFrontier) => (asked'.purpose = "movement" /\ asked'.frontier)]_vars

\* C11 witness: a visibility query has read a frontier door of the hub; no cell
\* has been carved and every door of the hub is still a frontier door
C11_Witness ==
  /\ asked.purpose = "visibility" /\ asked.frontier
  /\ NumCells(Store) = 4
  /\ \A i \in HubPerimeterDoors(Store) :
       FrontierIn(edges, Perimeter[i].x, Perimeter[i].y, Perimeter[i].dir)

\* the cell behind the edge the last movement query expanded
AskedDest == step(asked.x, asked.y, asked.dir)

\* C12: after a movement query has expanded a frontier door at (x, y, dir), the
\* edge (x, y, dir) and its mirror are door_unlocked with frontier = false, the
\* destination cell has a cell override, and each of the four edges of the
\* destination cell has an edge override.
C12_ExpandedDoor ==
  (asked.purpose = "movement" /\ asked.frontier) =>
    /\ EdgeRow(Store, asked.x, asked.y, asked.dir).edgeType = "door_unlocked"
    /\ ~MetaFrontier(EdgeRow(Store, asked.x, asked.y, asked.dir).meta)
    /\ EdgeRow(Store, AskedDest.nx, AskedDest.ny, opposite(asked.dir))
         = EdgeRow(Store, asked.x, asked.y, asked.dir)
    /\ getCellMeta(Store, AskedDest.nx, AskedDest.ny)
    /\ \A d \in DirSet : HasEdge(Store, AskedDest.nx, AskedDest.ny, d)

\* C12 witness: a movement query through the frontier door of a corridor cell
\* has carved a 2x2 room behind it
C12_Witness ==
  /\ asked.purpose = "movement" /\ asked.frontier
  /\ CellRow(Store, asked.x, asked.y).kind = "corridor"
  /\ CellRow(Store, AskedDest.nx, AskedDest.ny).kind = "room"
  /\ NumCells(Store) = 9

(* ------------------------------ the server ----------------------------- *)
Tick ==
  /\ now + TickMs <= MaxNow
  /\ now' = now + TickMs
  /\ UNCHANGED <<edges, cells, hubOrder, hubDoorCount, conn, chars, disc, sent, last, moveOkAt>>
  /\ UNCHANGED raceVars
  /\ UNCHANGED <<asked, harnessVars>>

\* the frame reaches the move of the engine
ReachesMove(c, m) ==
  /\ m.json /\ safeParseClient(m).ok /\ m.seq > conn[c].lastSeq
  /\ conn[c].authed /\ m.type = "move"
  /\ now >= conn[c].cooldowns.moveReadyAtMs

\* the edge the move of frame m queries
MoveKey(c, m) ==
  LET a == chars[conn[c].userId]
  IN [x |-> a.x, y |-> a.y, dir |-> moveDirToAbs(a.face, m.arg)]

\* connection c receives frame m
Recv(c, m) ==
  LET mv == ReachesMove(c, m)
      carve == mv /\ WouldCarve(Store, MoveKey(c, m).x, MoveKey(c, m).y, MoveKey(c, m).dir)
  IN /\ carve => CarveAllowed(Store, MoveKey(c, m).x, MoveKey(c, m).y, MoveKey(c, m).dir)
     /\ \E rnd \in (IF carve THEN DrawsFor(ensureSeedHub(Store), MoveKey(c, m).x, MoveKey(c, m).y)
                    ELSE {NoDraw}) :
          \E r \in {OnMessage(conn[c], chars, Store, disc, now, m, rnd)} :
             /\ conn' = [conn EXCEPT ![c] = r.st]
             /\ chars' = r.C
             /\ edges' = r.S.edges
             /\ cells' = r.S.cells
             /\ disc' = r.D
             /\ sent' = r.out
             /\ last' = [c |-> c, m |-> m, info |-> r.info]
             /\ moveOkAt' = IF r.info.stage = "move" /\ r.info.ok
                            THEN [moveOkAt EXCEPT ![c] = now] ELSE moveOkAt
     /\ UNCHANGED <<hubOrder, hubDoorCount, now>>
     /\ UNCHANGED raceVars
     /\ UNCHANGED <<asked, harnessVars>>

\* the client drops the connection and opens a new one
Reconnect(c) ==
  /\ conn[c] # NewConn
  /\ conn' = [conn EXCEPT ![c] = NewConn]
  /\ moveOkAt' = [moveOkAt EXCEPT ![c] = 0 - 1]
  /\ sent' = <<>>
  /\ last' = [c |-> "none", m |-> NoFrame, info |-> NoInfo]
  /\ UNCHANGED <<edges, cells, hubOrder, hubDoorCount, now, chars, disc>>
  /\ UNCHANGED raceVars
  /\ UNCHANGED <<asked, harnessVars>>

Frame(seq, type, arg) ==
  [json |-> TRUE, seqKind |-> "number", seq |-> seq, type |-> type, arg |-> arg, extra |-> FALSE]

\* the next integer seq of the connection
NextSeq(c) == conn[c].lastSeq - (conn[c].lastSeq % SeqScale) + SeqScale

\* the frames of a client that plays: one session token or a wrong one, every
\* move, every turn, one reserved intent
PlayArgs ==
  ({"auth"} \X {"s1", "zz"}) \cup ({"move"} \X (DirSet \cup {"F", "B"}))
  \cup ({"turn"} \X DirSet) \cup ({"interact"} \X {""})

\* what a well-behaved client sends: the next integer seq, up to maxSeq
GoodFrames(c, typeArgs, maxSeq) ==
  IF NextSeq(c) > maxSeq * SeqScale THEN {}
  ELSE {Frame(NextSeq(c), ta[1], ta[2]) : ta \in typeArgs}

Next ==
  \/ Tick
  \/ \E m \in GoodFrames("c1", PlayArgs, MaxSeq) : Recv("c1", m)

Spec == Init /\ [][Next]_vars

\* The connection layer.  The client sends any seq around lastSeq and frames
\* that JSON.parse or the schema may reject; the clock stands still.
SeqArgs ==
  {<<"auth", "s1">>, <<"move", "S">>, <<"turn", "E">>, <<"interact", "">>, <<"join_world", "w">>}

\* seq values around lastSeq: lastSeq itself, the next multiple of 1/SeqScale
\* (an integer or not), the next integer
SeqsAround(c) ==
  {q \in {conn[c].lastSeq, conn[c].lastSeq + 1, NextSeq(c)} : q <= MaxSeq * SeqScale}

DefectiveFrames ==
  { [NoFrame EXCEPT !.json = FALSE],
    [NoFrame EXCEPT !.json = TRUE, !.seqKind = "nonfinite", !.type = "turn", !.arg = "E"],
    [NoFrame EXCEPT !.json = TRUE, !.type = "auth", !.arg = "s1"],
    Frame(MaxSeq * SeqScale, "move", "X"),
    Frame(MaxSeq * SeqScale, "auth", ""),
    Frame(MaxSeq * SeqScale, "ping", "") }

SeqFrames(c) ==
  {Frame(q, ta[1], ta[2]) : q \in SeqsAround(c), ta \in SeqArgs} \cup DefectiveFrames

NextSeqs ==
  \/ \E m \in SeqFrames("c1") : Recv("c1", m)
  \/ Reconnect("c1")

SpecSeq == Init /\ [][NextSeqs]_vars

\* Authenticating again.  The client sends the next seq, the tokens of both
\* users, moves south or north and turns east.
ReauthArgs ==
  {<<"auth", "s1">>, <<"auth", "s2">>, <<"move", "S">>, <<"move", "N">>, <<"turn", "E">>}

NextReauth ==
  \/ Tick
  \/ \E m \in GoodFrames("c1", ReauthArgs, MaxSeqReauth) : Recv("c1", m)

SpecReauth == Init /\ [][NextReauth]_vars

\* Playing with a turn cooldown.  TURN_COOLDOWN_MS is unset or set to one tick
\* of the clock; the client authenticates, moves relative to its facing or in a
\* cardinal direction, turns, and sends the reserved intents and a move whose
\* dir the schema rejects.
TurnEnvs == {DefaultEnv, [TURN_COOLDOWN_MS |-> [set |-> TRUE, value |-> TickMs]]}

TurnArgs ==
  {<<"auth", "s1">>, <<"move", "F">>, <<"move", "B">>, <<"move", "E">>, <<"move", "X">>,
   <<"turn", "E">>, <<"turn", "S">>, <<"interact", "">>, <<"use_egg", "">>,
   <<"join_world", "w">>}

InitTurn ==
  /\ InitStore({2}) /\ InitServer
  /\ race = [x |-> 0, y |-> 0, dir |-> "N", rnd |-> NoDraw]
  /\ proc = [p \in Procs |-> Idle]
  /\ carves = 0
  /\ asked = NoAsk /\ twin = NoTwin /\ hand = NoHand
  /\ env \in TurnEnvs

NextTurn ==
  \/ Tick
  \/ \E m \in GoodFrames("c1", TurnArgs, MaxSeqReauth) : Recv("c1", m)

SpecTurn == InitTurn /\ [][NextTurn]_vars

(* ------------------- two concurrent movement queries ------------------- *)
\* Two processes run getEdgeOverride(level, x, y, dir, 'movement') on the same
\* edge against one database.  Each step is one storage operation or one
\* transaction.  Both seed their Rng32 from the same key, so both take the draws
\* race.rnd.
EmptyStore ==
  [edges |-> [x \in XR |-> [y \in XR |-> [d \in DirSet |-> NoEdge]]],
   cells |-> [x \in XR |-> [y \in XR |-> NoCell]]]

\* a world nothing has queried yet
InitConc ==
  /\ hubOrder \in HubOrders
  /\ hubDoorCount \in {1, 2}
  /\ edges = EmptyStore.edges /\ cells = EmptyStore.cells
  /\ InitServer
  /\ \E i \in 1..Len(Perimeter), rnd \in CorridorDraws :
       race = [x |-> Perimeter[i].x, y |-> Perimeter[i].y, dir |-> Perimeter[i].dir, rnd |-> rnd]
  /\ proc = [p \in Procs |-> [Idle EXCEPT !.pc = "ensure"]]
  /\ carves = 0
  /\ InitPlain

RaceDest == step(race.x, race.y, race.dir)

StoreUnchanged == UNCHANGED <<edges, cells>>
ConcFrame ==
  UNCHANGED <<hubOrder, hubDoorCount, race>> /\ UNCHANGED serverVars
    /\ UNCHANGED <<asked, harnessVars>>

\* an earlier request's visibility query at the hub, before the race starts
QSeed ==
  /\ \A p \in Procs : proc[p].pc = "ensure"
  /\ \E r \in {edgeType(Store, 0, 0, "N", "visibility", NoDraw)} :
       edges' = r.S.edges /\ cells' = r.S.cells
  /\ UNCHANGED <<proc, carves>> /\ ConcFrame

\* if (purpose !== 'minimap') this.ensureSeedHub(levelId): one transaction
QEnsure(p) ==
  /\ proc[p].pc = "ensure"
  /\ \E S \in {ensureSeedHub(Store)} : edges' = S.edges /\ cells' = S.cells
  /\ proc' = [proc EXCEPT ![p].pc = "row0"]
  /\ UNCHANGED carves /\ ConcFrame

\* const row0 = this.stmtGetEdge.get(...)
QRow0(p) ==
  /\ proc[p].pc = "row0"
  /\ proc' = IF IsFrontierDoor(Store, race.x, race.y, race.dir)
             THEN [proc EXCEPT ![p].pc = "dest", ![p].expanded = TRUE,
                               ![p].meta = EdgeRow(Store, race.x, race.y, race.dir).meta]
             ELSE [proc EXCEPT ![p].pc = "final"]
  /\ StoreUnchanged /\ UNCHANGED carves /\ ConcFrame

\* const destMeta = this.getCellMeta(levelId, n.nx, n.ny)
QDest(p) ==
  /\ proc[p].pc = "dest"
  /\ proc' = [proc EXCEPT ![p].pc =
                IF getCellMeta(Store, RaceDest.nx, RaceDest.ny) THEN "w1" ELSE "src"]
  /\ StoreUnchanged /\ UNCHANGED carves /\ ConcFrame

\* writeEdgeBothWays outside a transaction: the first upsert
QWrite1(p) ==
  /\ proc[p].pc = "w1"
  /\ edges' = upsertEdge(Store, race.x, race.y, race.dir, "door_unlocked",
                         DoorMeta(MetaDoorId(proc[p].meta), FALSE)).edges
  /\ proc' = [proc EXCEPT ![p].pc = "w2"]
  /\ UNCHANGED <<cells, carves>> /\ ConcFrame

\* writeEdgeBothWays outside a transaction: the mirror upsert
QWrite2(p) ==
  /\ proc[p].pc = "w2"
  /\ edges' = upsertEdge(Store, RaceDest.nx, RaceDest.ny, opposite(race.dir), "door_unlocked",
                         DoorMeta(MetaDoorId(proc[p].meta), FALSE)).edges
  /\ proc' = [proc EXCEPT ![p].pc = "final"]
  /\ UNCHANGED <<cells, carves>> /\ ConcFrame

\* const srcMeta = this.getCellMeta(levelId, x, y)
QSrc(p) ==
  /\ proc[p].pc = "src"
  /\ proc' = [proc EXCEPT ![p].pc = "tx", ![p].srcKind = SrcKind(Store, race.x, race.y)]
  /\ StoreUnchanged /\ UNCHANGED carves /\ ConcFrame

\* tx(): the transaction of expandFrontierDoor
QTx(p) ==
  /\ proc[p].pc = "tx"
  /\ \E S \in {ExpandTx(Store, race.x, race.y, race.dir, proc[p].meta, proc[p].srcKind, race.rnd)} :
       edges' = S.edges /\ cells' = S.cells
  /\ carves' = IF getCellMeta(Store, RaceDest.nx, RaceDest.ny) THEN carves ELSE carves + 1
  /\ proc' = [proc EXCEPT ![p].pc = "final"]
  /\ ConcFrame

\* const row = this.stmtGetEdge.get(...); return
QFinal(p) ==
  /\ proc[p].pc = "final"
  /\ proc' = [proc EXCEPT ![p].pc = "done",
                          ![p].ret = IF HasEdge(Store, race.x, race.y, race.dir)
                                     THEN EdgeRow(Store, race.x, race.y, race.dir).edgeType
                                     ELSE "null"]
  /\ StoreUnchanged /\ UNCHANGED carves /\ ConcFrame

NextConc ==
  \/ QSeed
  \/ \E p \in Procs :
    \/ QEnsure(p)
    \/ QRow0(p)
    \/ QDest(p)
    \/ QWrite1(p)
    \/ QWrite2(p)
    \/ QSrc(p)
    \/ QTx(p)
    \/ QFinal(p)

SpecConc == InitConc /\ [][NextConc]_vars

\* the rows placeCorridorCell gives the cell carved behind the raced door
CorridorRow(d) ==
  LET candidates == SelectSeq(Dirs, LAMBDA c : c # opposite(race.dir))
      exitSet == {candidates[i] : i \in race.rnd.exits}
  IN IF d = opposite(race.dir) THEN [edgeType |-> "door_unlocked", meta |-> DoorMeta(NewDoorId, FALSE)]
     ELSE IF d \in exitSet THEN [edgeType |-> "door_unlocked", meta |-> DoorMeta(NewDoorId, TRUE)]
     ELSE [edgeType |-> "wall", meta |-> EmptyMeta]

\* C10: two movement queries that resolve the same frontier edge concurrently,
\* interleaved at storage operations with each transaction atomic, collapse to
\* one outcome: once both have returned, the destination has been carved
\* exactly once, it is one corridor cell with the one set of edges its carving
\* wrote, every stored edge has its mirror, the door's frontier flag is
\* cleared, and both queries returned door_unlocked.
C10_RaceCollapses ==
  (\A p \in Procs : proc[p].pc = "done") =>
    /\ ~IsFrontierDoor(Store, race.x, race.y, race.dir)
    /\ EdgeSymmetry
    /\ (\E p \in Procs : proc[p].expanded) =>
         /\ carves = 1
         /\ CellRow(Store, RaceDest.nx, RaceDest.ny).kind = "corridor"
         /\ NumCells(Store) = 5
         /\ \A d \in DirSet : EdgeRow(Store, RaceDest.nx, RaceDest.ny, d) = CorridorRow(d)
         /\ \A p \in Procs : proc[p].expanded => proc[p].ret = "door_unlocked"

\* C10 witness: both queries found the door a frontier door, both have
\* returned, and the loser of the race found the destination carved inside its
\* own transaction
C10_Witness ==
  /\ \A p \in Procs : proc[p].pc = "done" /\ proc[p].expanded /\ proc[p].srcKind = "hub_room"
  /\ carves = 1

(* --------------------- two databases with one seed --------------------- *)
\* The world ids of the databases: ensureWorld draws id('w'), 12 random bytes in
\* hex, when it creates the world row.
WorldIds ==
  {"w_000000000000000000000000",
   "w_000000000000000000000001",
   "w_000000000000000000000002"}

\* The seeds of a world: WORLD_SEED when it is set to a number.
Seeds == {12345, 777}

\* What Rng32 yields when seeded with hashU32([seed, worldId, 1, ...]), computed
\* with the arithmetic of hashU32 and Rng32 (FNV-1a, avalanche, xorshift32):
\*   order     - 'hub_doors_v1': the perimeter after shuffleInPlace, as indexes
\*               into Perimeter
\*   doorCount - 'hub_doors_v1': float01() < 0.35 ? 2 : 1
\*   exits[i]  - [.., x, y, dir, 'expand_v1'] for the perimeter edge i: the
\*               positions (in candidates) of the exits of the corridor cell
RngOf(seed, worldId) ==
  IF seed = 12345 THEN
   IF worldId = "w_000000000000000000000000"
   THEN [order |-> <<8, 2, 6, 3, 7, 4, 1, 5>>, doorCount |-> 1,
        exits |-> <<{}, {3}, {2}, {2}, {}, {2}, {1}, {}>>]
   ELSE IF worldId = "w_000000000000000000000001"
   THEN [order |-> <<3, 8, 2, 6, 5, 7, 1, 4>>, doorCount |-> 1,
        exits |-> <<{1}, {1, 2}, {2, 3}, {1, 3}, {}, {1}, {1, 2}, {1}>>]
   ELSE [order |-> <<3, 2, 7, 1, 5, 4, 8, 6>>, doorCount |-> 1,
        exits |-> <<{1}, {}, {}, {2, 3}, {2, 3}, {}, {2}, {2, 3}>>]
  ELSE
   IF worldId = "w_000000000000000000000000"
   THEN [order |-> <<8, 1, 2, 7, 4, 5, 3, 6>>, doorCount |-> 2,
        exits |-> <<{1}, {}, {2}, {1}, {}, {3}, {3}, {}>>]
   ELSE IF worldId = "w_000000000000000000000001"
   THEN [order |-> <<1, 8, 6, 3, 7, 4, 5, 2>>, doorCount |-> 1,
        exits |-> <<{1, 3}, {}, {2}, {3}, {3}, {2}, {}, {1, 3}>>]
   ELSE [order |-> <<3, 6, 2, 5, 8, 7, 1, 4>>, doorCount |-> 2,
        exits |-> <<{1, 2}, {2}, {1, 3}, {2}, {1}, {}, {2}, {2, 3}>>]

\* the shuffled perimeter of the hub in the database of worldId
HubOrderOf(seed, worldId) ==
  [i \in 1..Len(Perimeter) |-> Perimeter[RngOf(seed, worldId).order[i]]]

PerimeterIndex(x, y, dir) ==
  CHOOSE i \in 1..Len(Perimeter) : Perimeter[i] = [x |-> x, y |-> y, dir |-> dir]

\* the draws of the expansion behind the perimeter edge (x, y, dir): the source
\* is a hub cell, so the target is a corridor and only its exits are drawn
RndFor(seed, worldId, x, y, dir) ==
  [NoDraw EXCEPT !.exits = RngOf(seed, worldId).exits[PerimeterIndex(x, y, dir)]]

\* the database the harness works on
TwinWorld == IF twin.phase = "A" THEN twin.widA ELSE twin.widB

NoYield == [door |-> Perimeter[1], edges |-> [d \in DirSet |-> "none"]]

\* Two fresh databases whose worlds have the same seed; the first is open.
InitTwin ==
  /\ \E seed \in Seeds, a \in WorldIds, b \in WorldIds :
       /\ twin = [phase |-> "A", seed |-> seed, widA |-> a, widB |-> b, k |-> 0,
                  first |-> NoYield, second |-> NoYield]
       /\ hubOrder = HubOrderOf(seed, a)
       /\ hubDoorCount = RngOf(seed, a).doorCount
  /\ edges = EmptyStore.edges /\ cells = EmptyStore.cells
  /\ InitServer
  /\ race = [x |-> 0, y |-> 0, dir |-> "N", rnd |-> NoDraw]
  /\ proc = [p \in Procs |-> Idle]
  /\ carves = 0
  /\ asked = NoAsk /\ hand = NoHand /\ env = DefaultEnv

TwinFrame ==
  UNCHANGED serverVars /\ UNCHANGED raceVars /\ UNCHANGED <<asked, hand, env>>

\* the hub's first frontier door: the first entry of the shuffled perimeter
FirstDoor == hubOrder[1]

\* getEdgeOverride(1, x, y, dir, 'movement') on the hub's first frontier door
TwinResolve ==
  /\ twin.phase \in {"A", "B"} /\ twin.k = 0
  /\ \E r \in {edgeType(Store, FirstDoor.x, FirstDoor.y, FirstDoor.dir, "movement",
                        RndFor(twin.seed, TwinWorld, FirstDoor.x, FirstDoor.y, FirstDoor.dir))} :
       edges' = r.S.edges /\ cells' = r.S.cells
  /\ twin' = [twin EXCEPT !.k = 1]
  /\ UNCHANGED <<hubOrder, hubDoorCount>> /\ TwinFrame

\* the four edges of the destination cell are read, in the order N, E, S, W
TwinRead ==
  /\ twin.phase \in {"A", "B"} /\ twin.k = 1
  /\ \E A \in {CellEdgeLoop([S |-> Store, edges |-> [d \in DirSet |-> "none"]],
                             step(FirstDoor.x, FirstDoor.y, FirstDoor.dir).nx,
                             step(FirstDoor.x, FirstDoor.y, FirstDoor.dir).ny, 1)} :
       /\ edges' = A.S.edges /\ cells' = A.S.cells
       /\ twin' = IF twin.phase = "A"
                  THEN [twin EXCEPT !.k = 2, !.first = [door |-> FirstDoor, edges |-> A.edges]]
                  ELSE [twin EXCEPT !.phase = "done",
                                    !.second = [door |-> FirstDoor, edges |-> A.edges]]
  /\ UNCHANGED <<hubOrder, hubDoorCount>> /\ TwinFrame

\* the harness turns to the second database, which nothing has queried yet
TwinSwitch ==
  /\ twin.phase = "A" /\ twin.k = 2
  /\ twin' = [twin EXCEPT !.phase = "B", !.k = 0]
  /\ edges' = EmptyStore.edges /\ cells' = EmptyStore.cells
  /\ hubOrder' = HubOrderOf(twin.seed, twin.widB)
  /\ hubDoorCount' = RngOf(twin.seed, twin.widB).doorCount
  /\ TwinFrame

NextTwin == TwinResolve \/ TwinRead \/ TwinSwitch

SpecTwin == InitTwin /\ [][NextTwin]_vars

\* C13: frontier expansion is a function of the seed.  In two independent fresh
\* databases created with the same world seed, resolving the hub's first
\* frontier door for purpose movement and then reading the four edges of the
\* destination cell yields the same edge kinds in both.
C13_SeedDeterminesExpansion ==
  twin.phase = "done" => twin.second.edges = twin.first.edges

(* ---------------------- a move that fails midway ----------------------- *)
\* The statements of the move handler that write, in the order the handler runs
\* them: engine.move (the overlay's expansion, then discovery.markDiscovered),
\* state.cooldowns.moveReadyAtMs = ..., savePosition (the upsert of
\* character_position, then the UPDATE of characters' timestamps).  Each storage
\* statement commits by itself; the handler has no transaction around them and
\* no try.  FailPoints are the storage statements that may throw.
FailPoints == {"markDiscovered", "upsertPosition", "touchCharacter"}

\* connection c receives a move frame m that the engine accepts, and the
\* storage statement at throws: what ran before it stays
RecvFail(c, m, at) ==
  LET k == MoveKey(c, m)
      carve == WouldCarve(Store, k.x, k.y, k.dir)
      active == loadActiveCharacter(chars, conn[c].userId)
  IN /\ hand.pc = "idle"
     /\ ReachesMove(c, m)
     /\ carve => CarveAllowed(Store, k.x, k.y, k.dir)
     /\ \E rnd \in (IF carve THEN DrawsFor(ensureSeedHub(Store), k.x, k.y) ELSE {NoDraw}) :
          \E r \in {move(Store, disc, PlayerOf(active), conn[c].cooldowns, m.arg, now, rnd)} :
             /\ r.ok
             /\ edges' = r.S.edges
             /\ cells' = r.S.cells
             /\ disc' = IF at = "markDiscovered" THEN disc ELSE r.D
             /\ conn' = [conn EXCEPT ![c].lastSeq = m.seq,
                                     ![c].cooldowns.moveReadyAtMs =
                                        IF at = "markDiscovered" THEN @ ELSE now + MoveCooldownMs]
             /\ chars' = IF at = "touchCharacter"
                         THEN savePosition(chars, conn[c].userId, r.player.levelId, r.player.x,
                                           r.player.y, r.player.face)
                         ELSE chars
             /\ hand' = [pc |-> "failed", at |-> at, c |-> c,
                         dest |-> [x |-> r.player.x, y |-> r.player.y]]
     /\ sent' = <<>>
     /\ last' = [c |-> c, m |-> m, info |-> Info("move", FALSE)]
     /\ UNCHANGED <<hubOrder, hubDoorCount, now, moveOkAt>>
     /\ UNCHANGED raceVars
     /\ UNCHANGED <<asked, twin, env>>

\* the exception leaves the 'message' listener uncaught: the process ends and
\* every connection with it; what the database holds stays
Crash ==
  /\ hand.pc = "failed"
  /\ hand' = [hand EXCEPT !.pc = "down"]
  /\ conn' = [c \in Conns |-> NewConn]
  /\ moveOkAt' = [c \in Conns |-> 0 - 1]
  /\ sent' = <<>>
  /\ last' = [c |-> "none", m |-> NoFrame, info |-> NoInfo]
  /\ UNCHANGED <<edges, cells, hubOrder, hubDoorCount, now, chars, disc>>
  /\ UNCHANGED raceVars
  /\ UNCHANGED <<asked, twin, env>>

NextFail ==
  \/ hand.pc = "idle" /\ Tick
  \/ \E m \in GoodFrames("c1", PlayArgs, MaxSeq) : hand.pc = "idle" /\ Recv("c1", m)
  \/ \E m \in GoodFrames("c1", PlayArgs, MaxSeq), at \in FailPoints : RecvFail("c1", m, at)
  \/ Crash

SpecFail == Init /\ [][NextFail]_vars

FailedUser == conn[hand'.c].userId

PoseCommitted ==
  chars'[FailedUser].x = hand'.dest.x /\ chars'[FailedUser].y = hand'.dest.y

DiscoveryCommitted == <<hand'.dest.x, hand'.dest.y>> \in disc'

CooldownCommitted == conn'[hand'.c].cooldowns.moveReadyAtMs = now + MoveCooldownMs

NothingCommitted ==
  /\ chars' = chars
  /\ disc' = disc
  /\ conn'[hand'.c].cooldowns = conn[hand'.c].cooldowns

\* C16: move atomicity.  When the handling of a move fails at any point, either
\* all three effects are committed (the pose persisted at the new cell, the
\* destination marked discovered, moveReadyAtMs advanced) or none of them is.
C16_MoveAtomicity ==
  [][(hand.pc = "idle" /\ hand'.pc = "failed") =>
       \/ PoseCommitted /\ DiscoveryCommitted /\ CooldownCommitted
       \/ NothingCommitted]_vars

(* ------------------- one action log on two engines --------------------- *)
\* The harness of the replay test on the server's providers: an engine over a
\* fresh database runs a log of intents from the pose (1, 0, 0, N) with (0, 0)
\* discovered and both cooldowns at the clock, and the state hash is taken; a
\* second engine with the same seed over another fresh database runs the same
\* log against a clock advanced the same way.
Intents ==
  {[kind |-> "turn", arg |-> d] : d \in DirSet}
    \cup {[kind |-> "move", arg |-> "F"], [kind |-> "advance", arg |-> ""]}

StartPlayer == [levelId |-> 1, x |-> 0, y |-> 0, face |-> "N", hp |-> 10]

\* no hash taken yet
NoHash ==
  stableHash([you |-> StartPlayer, cooldowns |-> [moveReadyAtMs |-> 0, turnReadyAtMs |-> 0],
              visible |-> <<>>])

IsPerimeter(x, y, dir) == \E i \in 1..Len(Perimeter) : Perimeter[i] = [x |-> x, y |-> y, dir |-> dir]

InitReplay ==
  /\ \E seed \in Seeds, a \in WorldIds, b \in WorldIds :
       /\ twin = [phase |-> "A", seed |-> seed, widA |-> a, widB |-> b, k |-> 0,
                  log |-> <<>>, player |-> StartPlayer,
                  cooldowns |-> [moveReadyAtMs |-> 0, turnReadyAtMs |-> 0],
                  traceA |-> <<>>, traceB |-> <<>>, hashed |-> FALSE,
                  hashA |-> NoHash, hashB |-> NoHash]
       /\ hubOrder = HubOrderOf(seed, a)
       /\ hubDoorCount = RngOf(seed, a).doorCount
  /\ edges = EmptyStore.edges /\ cells = EmptyStore.cells
  /\ now = 0
  /\ conn = [c \in Conns |-> NewConn]
  /\ chars = [u \in Users |-> NewCharacter(u)]
  /\ disc = markDiscovered({}, 0, 0)
  /\ sent = <<>>
  /\ last = [c |-> "none", m |-> NoFrame, info |-> NoInfo]
  /\ moveOkAt = [c \in Conns |-> 0 - 1]
  /\ race = [x |-> 0, y |-> 0, dir |-> "N", rnd |-> NoDraw]
  /\ proc = [p \in Procs |-> Idle]
  /\ carves = 0
  /\ asked = NoAsk /\ hand = NoHand /\ env = DefaultEnv

ReplayFrame ==
  /\ UNCHANGED <<conn, chars, sent, last, moveOkAt>>
  /\ UNCHANGED raceVars
  /\ UNCHANGED <<asked, hand, env>>

\* the draws of a move from the player's cell: those of the expansion behind a
\* perimeter edge; a move that would carve anywhere else is not run
ReplayDraw(p) ==
  IF IsPerimeter(p.x, p.y, p.face)
  THEN RndFor(twin.seed, TwinWorld, p.x, p.y, p.face)
  ELSE NoDraw

ReplayRuns(i) ==
  /\ i.kind = "advance" => now + TickMs <= MaxNow
  /\ (i.kind = "move" /\ now >= twin.cooldowns.moveReadyAtMs
        /\ WouldCarve(Store, twin.player.x, twin.player.y, twin.player.face))
       => (/\ IsPerimeter(twin.player.x, twin.player.y, twin.player.face)
           /\ CarveAllowed(Store, twin.player.x, twin.player.y, twin.player.face))

\* one intent of the log on the engine at work: [S, D, t, player, cooldowns]
RunIntent(i) ==
  IF i.kind = "turn"
  THEN Let(turn(twin.player, twin.cooldowns, i.arg, now), LAMBDA r :
         [S |-> Store, D |-> disc, t |-> now, player |-> r.player,
          cooldowns |-> IF r.ok
                        THEN [twin.cooldowns EXCEPT !.turnReadyAtMs = now + TurnCooldownMs]
                        ELSE twin.cooldowns])
  ELSE IF i.kind = "move"
  THEN Let(move(Store, disc, twin.player, twin.cooldowns, i.arg, now, ReplayDraw(twin.player)),
           LAMBDA r :
             [S |-> r.S, D |-> r.D, t |-> now, player |-> r.player,
              cooldowns |-> IF r.ok
                            THEN [twin.cooldowns EXCEPT !.moveReadyAtMs = now + MoveCooldownMs]
                            ELSE twin.cooldowns])
  ELSE [S |-> Store, D |-> disc, t |-> now + TickMs, player |-> twin.player,
        cooldowns |-> twin.cooldowns]

\* the first engine runs an intent, which is appended to the log; the second
\* runs the next intent of the log
ReplayStep ==
  /\ twin.phase \in {"A", "B"}
  /\ \E i \in (IF twin.phase = "A"
               THEN (IF ~twin.hashed /\ Len(twin.log) < MaxLog THEN Intents ELSE {})
               ELSE (IF twin.k < Len(twin.log) THEN {twin.log[twin.k + 1]} ELSE {})) :
       /\ ReplayRuns(i)
       /\ \E r \in {RunIntent(i)} :
            /\ edges' = r.S.edges /\ cells' = r.S.cells
            /\ disc' = r.D
            /\ now' = r.t
            /\ twin' = IF twin.phase = "A"
                       THEN [twin EXCEPT !.k = twin.k + 1, !.log = Append(twin.log, i),
                                         !.player = r.player, !.cooldowns = r.cooldowns,
                                         !.traceA = Append(twin.traceA,
                                                      [player |-> r.player, cooldowns |-> r.cooldowns])]
                       ELSE [twin EXCEPT !.k = twin.k + 1,
                                         !.player = r.player, !.cooldowns = r.cooldowns,
                                         !.traceB = Append(twin.traceB,
                                                      [player |-> r.player, cooldowns |-> r.cooldowns])]
  /\ UNCHANGED <<hubOrder, hubDoorCount>> /\ ReplayFrame

\* eng.stateHash(p, c) at the end of the log
ReplayHash ==
  /\ \/ twin.phase = "A" /\ ~twin.hashed
     \/ twin.phase = "B" /\ twin.k = Len(twin.log)
  /\ \E h \in {stateHash(Store, disc, twin.player, twin.cooldowns)} :
       /\ edges' = h.S.edges /\ cells' = h.S.cells
       /\ twin' = IF twin.phase = "A"
                  THEN [twin EXCEPT !.hashA = h.hash, !.hashed = TRUE]
                  ELSE [twin EXCEPT !.hashB = h.hash, !.phase = "done"]
  /\ UNCHANGED <<hubOrder, hubDoorCount, now, disc>> /\ ReplayFrame

\* the second engine starts: a fresh database, the initial pose, discovery set,
\* cooldowns and clock
ReplaySwitch ==
  /\ twin.phase = "A" /\ twin.hashed
  /\ twin' = [twin EXCEPT !.phase = "B", !.k = 0, !.player = StartPlayer,
                          !.cooldowns = [moveReadyAtMs |-> 0, turnReadyAtMs |-> 0]]
  /\ edges' = EmptyStore.edges /\ cells' = EmptyStore.cells
  /\ hubOrder' = HubOrderOf(twin.seed, twin.widB)
  /\ hubDoorCount' = RngOf(twin.seed, twin.widB).doorCount
  /\ now' = 0
  /\ disc' = markDiscovered({}, 0, 0)
  /\ ReplayFrame

NextReplay == ReplayStep \/ ReplayHash \/ ReplaySwitch

SpecReplay == InitReplay /\ [][NextReplay]_vars

\* C14: replay stability.  Two engines with the same seed, the same initial
\* pose, discovery set and cooldowns, a clock advanced identically and the same
\* sequence of turn and move intents end with equal state hashes, and with equal
\* pose and cooldowns after every step.
C14_ReplayStability ==
  twin.phase = "done" => (twin.hashB = twin.hashA /\ twin.traceB = twin.traceA)

\* two engines over databases with the same world id do replay alike
ReplayStableInOneWorld ==
  (twin.phase = "done" /\ twin.widA = twin.widB)
    => (twin.hashB = twin.hashA /\ twin.traceB = twin.traceA)

(* --------------------------- visibility rays --------------------------- *)
\* computeOmniRays over overlays of every edge kind.  The player stands on a row
\* of cells away from the hub; the edges along the row east of (0, RayRow), the
\* edge west of it and the edge north of it hold rows of the kinds
\* edge_overrides may hold.
RayRow == CarveHi + 2
RayKinds == {"open", "lever_secret", "wall", "door_unlocked", "door_locked"}
RayXs == 0..(CarveHi + 1)

RayEdgeRow(kind) ==
  [edgeType |-> kind,
   meta |-> IF kind \in {"door_unlocked", "door_locked"} THEN DoorMeta(NewDoorId, FALSE)
            ELSE EmptyMeta]

\* the overlay with the rows ks along the row, wk west and nk north of (0, RayRow)
RECURSIVE RayStoreLoop(_, _, _)
RayStoreLoop(S, ks, x) ==
  IF x \notin RayXs THEN S
  ELSE RayStoreLoop(writeEdgeBothWays(S, x, RayRow, "E", ks[x], RayEdgeRow(ks[x]).meta), ks, x + 1)

RayStore(ks, wk, nk) ==
  writeEdgeBothWays(
    writeEdgeBothWays(RayStoreLoop(EmptyStore, ks, 0), 0, RayRow, "W", wk, RayEdgeRow(wk).meta),
    0, RayRow, "N", nk, RayEdgeRow(nk).meta)

InitRays ==
  /\ \E ks \in [RayXs -> RayKinds], wk \in {"open", "wall"}, nk \in {"open", "door_locked"} :
       /\ edges = RayStore(ks, wk, nk).edges
       /\ cells = RayStore(ks, wk, nk).cells
  /\ hubOrder \in HubOrders
  /\ hubDoorCount = 1
  /\ InitServer
  /\ race = [x |-> 0, y |-> 0, dir |-> "N", rnd |-> NoDraw]
  /\ proc = [p \in Procs |-> Idle]
  /\ carves = 0
  /\ asked = NoAsk /\ hand = NoHand /\ env = DefaultEnv
  /\ twin = [phase |-> "rays", player |-> StartPlayer, out |-> <<>>]

\* computeOmniRays(engine, player, 3) for a player on the row, at x = 0 or 1
Look(px) ==
  /\ twin.phase = "rays"
  /\ \E pl \in {[StartPlayer EXCEPT !.x = px, !.y = RayRow]} :
       \E r \in {computeOmniRays(Store, pl, 3)} :
          /\ edges' = r.S.edges /\ cells' = r.S.cells
          /\ twin' = [phase |-> "seen", player |-> pl, out |-> r.out]
  /\ UNCHANGED <<hubOrder, hubDoorCount>>
  /\ UNCHANGED serverVars /\ UNCHANGED raceVars /\ UNCHANGED <<asked, hand, env>>

NextRays == \E px \in {0, 1} : Look(px)

SpecRays == InitRays /\ [][NextRays]_vars

Dx == [N |-> 0, E |-> 1, S |-> 0, W |-> 0 - 1]
Dy == [N |-> 0 - 1, E |-> 0, S |-> 1, W |-> 0]

\* the edge of (x, y) toward d has a kind sight passes
SeesThrough(x, y, d) ==
  /\ x \in XR /\ y \in XR
  /\ edges[x][y][d].edgeType \in {"open", "lever_secret"}

\* the cells in sight of p: its own, and those k <= 3 steps along a cardinal
\* direction with every edge on the way passing sight
InSight(p) ==
  {<<p.x, p.y>>} \cup
  {<<p.x + k * Dx[d], p.y + k * Dy[d]>> :
     <<d, k>> \in {dk \in DirSet \X (1..3) :
                    \A j \in 0..(dk[2] - 1) :
                      SeesThrough(p.x + j * Dx[dk[1]], p.y + j * Dy[dk[1]], dk[1])}}

\* C23: visibility rays.  visibleCells contains each cell at most once, always
\* contains the player's cell, and contains another cell iff it lies k <= 3
\* steps from the player along one cardinal direction and each of the k forward
\* edges on the way has visibility kind open or lever_secret; a wall or a door
\* of any kind ends the ray.
C23_VisibilityRays ==
  twin.phase = "seen" =>
    /\ \A i, j \in 1..Len(twin.out) :
         i # j => <<twin.out[i].x, twin.out[i].y>> # <<twin.out[j].x, twin.out[j].y>>
    /\ {<<twin.out[i].x, twin.out[i].y>> : i \in 1..Len(twin.out)} = InSight(twin.player)

\* C23 witness: three edges east of the player pass sight (one a lever_secret)
\* and so does the fourth; the ray has stopped at depth 3, and the door north
\* of the player has ended the north ray at once
C23_Witness ==
  /\ twin.phase = "seen" /\ twin.player.x = 0
  /\ edges[0][RayRow]["E"].edgeType = "open"
  /\ edges[1][RayRow]["E"].edgeType = "lever_secret"
  /\ edges[2][RayRow]["E"].edgeType = "open"
  /\ edges[3][RayRow]["E"].edgeType = "open"
  /\ edges[0][RayRow]["N"].edgeType = "door_locked"
  /\ edges[0][RayRow]["W"].edgeType = "open"
  /\ Len(twin.out) = 5

(* ---------------------- the discovery table's rows ---------------------- *)
\* discovered_cells_global with its discovered_at_ms column: a set of rows
\* [levelId, x, y, at] of one world.  PRIMARY KEY (world_id, level_id, x, y).
DiscLevels == {1, 2}
DiscXs == {0, 1}

DiscKey(r) == <<r.levelId, r.x, r.y>>
DiscKeys(T) == {DiscKey(r) : r \in T}

\* mutant of upsertDiscovered: INSERT OR IGNORE, the first timestamp stays
upsertDiscovered_KeepsFirst(T, levelId, x, y, at) ==
  IF <<levelId, x, y>> \in DiscKeys(T) THEN T
  ELSE T \cup {[levelId |-> levelId, x |-> x, y |-> y, at |-> at]}

\* INSERT ... ON CONFLICT(world_id, level_id, x, y)
\*   DO UPDATE SET discovered_at_ms = excluded.discovered_at_ms
upsertDiscovered(T, levelId, x, y, at) ==
  {r \in T : DiscKey(r) # <<levelId, x, y>>}
    \cup {[levelId |-> levelId, x |-> x, y |-> y, at |-> at]}

InitDisc ==
  /\ InitStore({2}) /\ InitServer
  /\ race = [x |-> 0, y |-> 0, dir |-> "N", rnd |-> NoDraw]
  /\ proc = [p \in Procs |-> Idle]
  /\ carves = 0
  /\ asked = NoAsk /\ hand = NoHand /\ env = DefaultEnv
  /\ twin = [phase |-> "disc", rows |-> {}, marked |-> <<0, 0, 0>>, again |-> FALSE]

\* DbDiscoveryProvider.markDiscovered(levelId, x, y) at Date.now()
MarkRow(levelId, x, y) ==
  /\ twin.phase = "disc"
  /\ twin' = [phase |-> "disc",
              rows |-> upsertDiscovered(twin.rows, levelId, x, y, now),
              marked |-> <<levelId, x, y>>,
              again |-> <<levelId, x, y>> \in DiscKeys(twin.rows)]
  /\ UNCHANGED <<edges, cells, hubOrder, hubDoorCount>>
  /\ UNCHANGED serverVars /\ UNCHANGED raceVars /\ UNCHANGED <<asked, hand, env>>

NextDisc ==
  \/ Tick
  \/ \E l \in DiscLevels, x \in DiscXs : MarkRow(l, x, 0)

SpecDisc == InitDisc /\ [][NextDisc]_vars

(* ------------------------- the minimap's cells -------------------------- *)
\* Rows of discovered_cells_global at and beyond the minimap's radius, on the
\* player's level and on another: the table the queries below read.
FarRows ==
  {[levelId |-> 1, x |-> c[1], y |-> c[2], at |-> 0] :
     c \in {<<1, 0>>, <<0, 1>>, <<MinimapRadius, 0>>, <<MinimapRadius + 1, 0>>,
            <<0 - MinimapRadius, 1>>, <<0, MinimapRadius + 1>>, <<1, 0 - MinimapRadius>>}}
  \cup {[levelId |-> 2, x |-> 0, y |-> 0, at |-> 0], [levelId |-> 2, x |-> 2, y |-> 0, at |-> 0]}

\* mutant of getDiscoveredRowsInRadius: rows of every level
getDiscoveredRowsInRadius_AnyLevel(T, levelId, cx, cy, radius) ==
  getDiscoveredInRadius({<<r.x, r.y>> : r \in T}, cx, cy, radius)

\* SELECT x, y ... WHERE world_id = ? AND level_id = ? AND x BETWEEN ? AND ?
\*   AND y BETWEEN ? AND ? ORDER BY y ASC, x ASC
getDiscoveredRowsInRadius(T, levelId, cx, cy, radius) ==
  getDiscoveredInRadius({<<r.x, r.y>> : r \in {q \in T : q.levelId = levelId}}, cx, cy, radius)

\* two clients of the same world: each authenticates and moves inside the hub
\* or out of it, one turns
MapArgs(c) ==
  IF c = "c1" THEN {<<"auth", "s1">>, <<"move", "E">>, <<"turn", "S">>}
  ELSE {<<"auth", "s2">>, <<"move", "S">>, <<"move", "W">>}

InitMap ==
  /\ InitStore({2}) /\ InitServer
  /\ race = [x |-> 0, y |-> 0, dir |-> "N", rnd |-> NoDraw]
  /\ proc = [p \in Procs |-> Idle]
  /\ carves = 0
  /\ asked = NoAsk /\ hand = NoHand /\ env = DefaultEnv
  /\ twin = [phase |-> "map", rows |-> FarRows, levelId |-> 1, px |-> 0, py |-> 0,
             cells |-> <<>>]

\* view's query of the discovery table for a player at (px, py) of a level
QueryMap(levelId, px, py) ==
  /\ twin.phase = "map"
  /\ twin' = [phase |-> "mapped", rows |-> twin.rows, levelId |-> levelId, px |-> px, py |-> py,
              cells |-> getDiscoveredRowsInRadius(twin.rows, levelId, px, py, MinimapRadius)]
  /\ UNCHANGED <<edges, cells, hubOrder, hubDoorCount>>
  /\ UNCHANGED serverVars /\ UNCHANGED raceVars /\ UNCHANGED <<asked, hand, env>>

NextMap ==
  \/ \E c \in Conns : \E m \in GoodFrames(c, MapArgs(c), MaxSeq) : Recv(c, m)
  \/ \E l \in {1, 2}, px \in {0, 1}, py \in {0, 1} : QueryMap(l, px, py)

SpecMap == InitMap /\ [][NextMap]_vars

(* ------------------- one user on two connections ---------------------- *)
\* The same user opens two connections: each authenticates once with the
\* user's session and then moves east or west between the hub cells.
SharedFrames(c) ==
  IF conn[c].authed THEN GoodFrames(c, {<<"move", "E">>, <<"move", "W">>}, MaxSeq)
  ELSE GoodFrames(c, {<<"auth", "s1">>}, MaxSeq)

NextShared ==
  \/ Tick
  \/ \E c \in Conns : \E m \in SharedFrames(c) : Recv(c, m)

SpecShared == Init /\ [][NextShared]_vars

(* --------------------- frames the schema should stop -------------------- *)
\* The client sends the next integer seq with each type the schema knows and
\* one it does not, the payload with or without a field the type does not
\* define.
SchemaArgs ==
  {<<"auth", "s1">>, <<"move", "S">>, <<"turn", "E">>, <<"interact", "">>,
   <<"join_world", "w">>, <<"ping", "">>}

SchemaFrames(c) ==
  {[m EXCEPT !.extra = x] : m \in GoodFrames(c, SchemaArgs, MaxSeqReauth), x \in BOOLEAN}

NextSchema == \E m \in SchemaFrames("c1") : Recv("c1", m)

SpecSchema == Init /\ [][NextSchema]_vars

(* --------------------------- the 32-bit PRNG ---------------------------- *)
\* A 32-bit word is the set of its one bits, bit 0 the lowest: the value of a
\* word may exceed what an integer of the checker holds, its bits do not.
WordBits == 0..31

RECURSIVE BitsOf(_, _)
\* the bits of n >= 0 from position i upward
BitsOf(n, i) ==
  IF n = 0 \/ i > 31 THEN {}
  ELSE (IF n % 2 = 1 THEN {i} ELSE {}) \cup BitsOf(n \div 2, i + 1)

\* the word with the given 16-bit halves
Word(hi, lo) == BitsOf(lo, 0) \cup BitsOf(hi, 16)

\* v >>> 0 and v | 0 of a small integer: two's complement for v < 0
ToU32(v) == IF v >= 0 THEN BitsOf(v, 0) ELSE WordBits \ BitsOf(0 - v - 1, 0)

Xor(a, b) == (a \ b) \cup (b \ a)
ShiftL(w, k) == {i + k : i \in {j \in w : j + k <= 31}}
ShiftR(w, k) == {i - k : i \in {j \in w : j >= k}}

\* a < b as unsigned values
WordLess(a, b) == \E i \in b \ a : \A j \in WordBits : j > i => (j \in a <=> j \in b)

RECURSIVE ModFrom(_, _, _, _)
\* the value of w modulo span, bit by bit from the top
ModFrom(w, span, i, r) ==
  IF i < 0 THEN r
  ELSE ModFrom(w, span, i - 1, (2 * r + (IF i \in w THEN 1 ELSE 0)) % span)

WordMod(w, span) == ModFrom(w, span, 31, 0)

RECURSIVE HalfVal(_, _, _)
\* the value of the n bits of w from position i upward
HalfVal(w, i, n) ==
  IF n = 0 THEN 0
  ELSE (IF i \in w THEN 1 ELSE 0) + 2 * HalfVal(w, i + 1, n - 1)

\* x * y modulo 2^16, for x, y < 2^16, with no product above 2^24
MulMod16(x, y) == ((x % 256) * y + (((x \div 256) * y) % 256) * 256) % 65536

\* Math.imul(a, k) as an unsigned word: the product modulo 2^32, from the
\* 16-bit halves p = <<lo(a), hi(a), lo(k), hi(k)>>
imulHalves(p) ==
  Let((p[1] % 256) * p[3] + (((p[1] \div 256) * p[3]) % 256) * 256, LAMBDA u :
    Word((u \div 65536 + ((p[1] \div 256) * p[3]) \div 256
            + MulMod16(p[2], p[3]) + MulMod16(p[1], p[4])) % 65536,
         u % 65536))

imul(a, k) ==
  Let(<<HalfVal(a, 0, 16), HalfVal(a, 16, 16), HalfVal(k, 0, 16), HalfVal(k, 16, 16)>>,
      LAMBDA p : imulHalves(p))

FnvPrime == Word(256, 403)             \* 16777619
LabelMaze == <<109, 97, 122, 101>>     \* the char codes of 'maze'

\* mixU32: h ^= v >>> 0; h = Math.imul(h, 16777619) >>> 0
mixU32(h, v) == Let(Xor(h, v), LAMBDA x : imul(x, FnvPrime))

RECURSIVE MixLabel(_, _, _)
MixLabel(h, label, i) ==
  IF i > Len(label) THEN h
  ELSE Let(mixU32(h, BitsOf(label[i] % 256, 0)), LAMBDA h1 : MixLabel(h1, label, i + 1))

\* the finalizer of hashSeed
Finalize(h) ==
  Let(Xor(h, ShiftR(h, 16)), LAMBDA h1 :
    Let(imul(h1, Word(32747, 13613)), LAMBDA h2 :         \* 0x7feb352d
      Let(Xor(h2, ShiftR(h2, 15)), LAMBDA h3 :
        Let(imul(h3, Word(33900, 42635)), LAMBDA h4 :     \* 0x846ca68b
          Xor(h4, ShiftR(h4, 16))))))

\* mutant of hashSeed: the clock is mixed into the seed
hashSeed_Clock(seed, levelId, chunkX, chunkY, label) ==
  Let(mixU32(Word(33052, 40389), ToU32(seed)), LAMBDA h1 :
    Let(mixU32(h1, ToU32(levelId)), LAMBDA h2 :
      Let(mixU32(h2, ToU32(chunkX)), LAMBDA h3 :
        Let(mixU32(h3, ToU32(chunkY)), LAMBDA h4 :
          Let(mixU32(h4, ToU32(now)), LAMBDA h5 :
            Let(MixLabel(h5, label, 1), LAMBDA h6 : Finalize(h6)))))))

\* hashSeed(seed, levelId, chunkX, chunkY, label); 2166136261 is the FNV offset
hashSeed(seed, levelId, chunkX, chunkY, label) ==
  Let(mixU32(Word(33052, 40389), ToU32(seed)), LAMBDA h1 :
    Let(mixU32(h1, ToU32(levelId)), LAMBDA h2 :
      Let(mixU32(h2, ToU32(chunkX)), LAMBDA h3 :
        Let(mixU32(h3, ToU32(chunkY)), LAMBDA h4 :
          Let(MixLabel(h4, label, 1), LAMBDA h5 : Finalize(h5))))))

\* new XorShift32(seed): (seed | 0) || 0x9e3779b9
XorShift32(seed) == IF seed = {} THEN Word(40503, 31161) ELSE seed

\* nextU32: the new state, which is also the value returned
nextU32(s) ==
  Let(Xor(s, ShiftL(s, 13)), LAMBDA x1 :
    Let(Xor(x1, ShiftR(x1, 17)), LAMBDA x2 :
      Xor(x2, ShiftL(x2, 5))))

\* float01() < p for the three p the generator uses: nextU32() / 0xffffffff < p
\* iff nextU32() is below the word given
Below60 == Word(39321, 39321)    \* 0.60 : 2576980377
Below90 == Word(58982, 26214)    \* 0.90 : 3865470566
BelowDoor == Word(2293, 49808)   \* 0.035: 150323856

\* int(min, max): returns [s, v]; no draw when max <= min
rngInt(s, min, max) ==
  IF ~(max > min) THEN [s |-> s, v |-> min]
  ELSE Let(nextU32(s), LAMBDA n : [s |-> n, v |-> min + WordMod(n, max - min)])

RECURSIVE ShuffleLoop(_, _, _)
\* for (let i = arr.length - 1; i > 0; i--): i is the 0-based index
ShuffleLoop(s, arr, i) ==
  IF i <= 0 THEN [s |-> s, arr |-> arr]
  ELSE Let(rngInt(s, 0, i + 1), LAMBDA j :
         ShuffleLoop(j.s, [arr EXCEPT ![i + 1] = arr[j.v + 1], ![j.v + 1] = arr[i + 1]], i - 1))

shuffleInPlace(s, arr) == ShuffleLoop(s, arr, Len(arr) - 1)

(* ------------------------- the chunk generator -------------------------- *)
\* generateChunkMaze on a chunk of ChunkSize x ChunkSize cells.  One invocation
\* is a record g: its position pc ("carve", "rooms", "doors", "done"), the state
\* s of its XorShift32, its dirs array, its stack (the top is the last
\* element), its visited cells and its east and south arrays, indexed by idx.
Cells == (0..(ChunkSize - 1)) \X (0..(ChunkSize - 1))
ZeroEdges == [i \in 0..(ChunkSize * ChunkSize - 1) |-> EDGE_WALL]

idx(x, y) == y * ChunkSize + x
inBounds(x, y) == x >= 0 /\ y >= 0 /\ x < ChunkSize /\ y < ChunkSize

stepLocal(x, y, dir) ==
  IF dir = "N" THEN <<x, y - 1>>
  ELSE IF dir = "S" THEN <<x, y + 1>>
  ELSE IF dir = "E" THEN <<x + 1, y>>
  ELSE <<x - 1, y>>

setEast(g, x, y, v) == IF ~inBounds(x, y) THEN g ELSE [g EXCEPT !.east[idx(x, y)] = v]
setSouth(g, x, y, v) == IF ~inBounds(x, y) THEN g ELSE [g EXCEPT !.south[idx(x, y)] = v]

openBetween(g, x, y, dir, v) ==
  IF dir = "E" THEN setEast(g, x, y, v)
  ELSE IF dir = "S" THEN setSouth(g, x, y, v)
  ELSE IF dir = "W" THEN setEast(g, x - 1, y, v)
  ELSE setSouth(g, x, y - 1, v)

NoRun ==
  [pc |-> "idle", s |-> {}, dirs |-> Dirs, stack |-> <<>>, visited |-> {},
   east |-> ZeroEdges, south |-> ZeroEdges]

\* lines 16-30: the generator seeded, the start cell drawn and pushed
generateStart(seed, levelId, chunkX, chunkY) ==
  Let(XorShift32(hashSeed(seed, levelId, chunkX, chunkY, LabelMaze)), LAMBDA s0 :
    Let(rngInt(s0, 0, ChunkSize), LAMBDA sx :
      Let(rngInt(sx.s, 0, ChunkSize), LAMBDA sy :
        [NoRun EXCEPT !.pc = "carve", !.s = sy.s,
                      !.stack = << <<sx.v, sy.v>> >>, !.visited = {<<sx.v, sy.v>>}])))

\* the positions in g.dirs of the directions that lead from the top of the
\* stack to an unvisited cell of the chunk
OpenDirs(g) ==
  {k \in 1..Len(g.dirs) :
     Let(stepLocal(g.stack[Len(g.stack)][1], g.stack[Len(g.stack)][2], g.dirs[k]), LAMBDA n :
       inBounds(n[1], n[2]) /\ n \notin g.visited)}

\* mutant of carveWith: a cell with no unvisited neighbour ends the loop
carveWith_NoBacktrack(g) ==
  Let(g.stack[Len(g.stack)], LAMBDA cur :
    Let(OpenDirs(g), LAMBDA ks :
      IF ks = {}
      THEN [g EXCEPT !.stack = <<>>, !.pc = "rooms"]
      ELSE Let(g.dirs[CHOOSE k \in ks : \A j \in ks : k <= j], LAMBDA d :
             Let(stepLocal(cur[1], cur[2], d), LAMBDA n :
               [openBetween(g, cur[1], cur[2], d, EDGE_OPEN)
                  EXCEPT !.visited = g.visited \cup {n},
                         !.stack = Append(g.stack, n)]))))

\* lines 36-49, after the shuffle: step to the first unvisited neighbour in the
\* order of g.dirs and push it, or pop; the loop ends when the stack is empty
carveWith(g) ==
  Let(g.stack[Len(g.stack)], LAMBDA cur :
    Let(OpenDirs(g), LAMBDA ks :
      IF ks = {}
      THEN [g EXCEPT !.stack = SubSeq(g.stack, 1, Len(g.stack) - 1),
                     !.pc = IF Len(g.stack) = 1 THEN "rooms" ELSE "carve"]
      ELSE Let(g.dirs[CHOOSE k \in ks : \A j \in ks : k <= j], LAMBDA d :
             Let(stepLocal(cur[1], cur[2], d), LAMBDA n :
               [openBetween(g, cur[1], cur[2], d, EDGE_OPEN)
                  EXCEPT !.visited = g.visited \cup {n},
                         !.stack = Append(g.stack, n)]))))

\* one iteration of while (stack.length): rng.shuffleInPlace(dirs), then the
\* for loop
carveIter(g) ==
  Let(shuffleInPlace(g.s, g.dirs), LAMBDA sh :
    carveWith([g EXCEPT !.s = sh.s, !.dirs = sh.arr]))

\* the room rectangle's inner edges set open (lines 111-122)
carveRect(g, x0, y0, w, h) ==
  [g EXCEPT
     !.east = [i \in DOMAIN g.east |->
                 IF \E c \in Cells : /\ idx(c[1], c[2]) = i
                                     /\ c[1] >= x0 /\ c[1] < x0 + w - 1
                                     /\ c[2] >= y0 /\ c[2] < y0 + h
                 THEN EDGE_OPEN ELSE g.east[i]],
     !.south = [i \in DOMAIN g.south |->
                  IF \E c \in Cells : /\ idx(c[1], c[2]) = i
                                      /\ c[1] >= x0 /\ c[1] < x0 + w
                                      /\ c[2] >= y0 /\ c[2] < y0 + h - 1
                  THEN EDGE_OPEN ELSE g.south[i]]]

\* one perimeter edge of the room set open (lines 126-144): side is
\* 0=N 1=E 2=S 3=W and at the x (N, S) or y (E, W) of the edge
openSideAt(g, x0, y0, w, h, side, at) ==
  IF side = 0 THEN (IF y0 > 0 THEN setSouth(g, at, y0 - 1, EDGE_OPEN) ELSE g)
  ELSE IF side = 1 THEN setEast(g, x0 + w - 1, at, EDGE_OPEN)
  ELSE IF side = 2 THEN setSouth(g, at, y0 + h - 1, EDGE_OPEN)
  ELSE IF x0 > 0 THEN setEast(g, x0 - 1, at, EDGE_OPEN) ELSE g

\* rng.int(0, 4) for the side, then rng.int along it
openSide(g, x0, y0, w, h) ==
  Let(rngInt(g.s, 0, 4), LAMBDA side :
    Let(IF side.v = 0 \/ side.v = 2 THEN rngInt(side.s, x0, x0 + w)
        ELSE rngInt(side.s, y0, y0 + h), LAMBDA at :
      openSideAt([g EXCEPT !.s = at.s], x0, y0, w, h, side.v, at.v)))

\* the size of a room: returns [s, w, h]
roomSize(s) ==
  Let(nextU32(s), LAMBDA roll :
    IF WordLess(roll, Below60) THEN [s |-> roll, w |-> 2, h |-> 2]
    ELSE IF WordLess(roll, Below90)
      THEN Let(rngInt(roll, 0, 2), LAMBDA r :
             IF r.v = 0 THEN [s |-> r.s, w |-> 2, h |-> 3] ELSE [s |-> r.s, w |-> 3, h |-> 2])
    ELSE [s |-> roll, w |-> 3, h |-> 3])

\* one pass of the loop of carveRooms
roomAttempt(g) ==
  Let(roomSize(g.s), LAMBDA z :
    Let(rngInt(z.s, 1, ChunkSize - z.w - 1), LAMBDA x0 :
      Let(rngInt(x0.s, 1, ChunkSize - z.h - 1), LAMBDA y0 :
        openSide(carveRect([g EXCEPT !.s = y0.s], x0.v, y0.v, z.w, z.h),
                 x0.v, y0.v, z.w, z.h))))

RECURSIVE RoomLoop(_, _)
RoomLoop(g, i) ==
  IF i >= RoomAttempts THEN g
  ELSE Let(roomAttempt(g), LAMBDA g1 : RoomLoop(g1, i + 1))

carveRooms(g) == [RoomLoop(g, 0) EXCEPT !.pc = "doors"]

\* east[i] = EDGE_DOOR when the edge is open and the roll is below doorChance
doorWith(g, arr, i, below) ==
  IF g[arr][i] = EDGE_OPEN /\ below THEN [g EXCEPT ![arr][i] = EDGE_DOOR] ELSE g

\* if (east[i] === EDGE_OPEN && rng.float01() < doorChance) east[i] = EDGE_DOOR
doorAt(g, arr, i) ==
  IF g[arr][i] # EDGE_OPEN THEN g
  ELSE Let(nextU32(g.s), LAMBDA roll :
         doorWith([g EXCEPT !.s = roll], arr, i, WordLess(roll, BelowDoor)))

RECURSIVE DoorLoop(_, _)
\* y outer, x inner: the cells in the order of idx
DoorLoop(g, i) ==
  IF i >= ChunkSize * ChunkSize THEN g
  ELSE Let(doorAt(doorAt(g, "east", i), "south", i), LAMBDA g1 : DoorLoop(g1, i + 1))

placeDoors(g) == [DoorLoop(g, 0) EXCEPT !.pc = "done"]

\* the next statement of an invocation
generateStep(g) ==
  IF g.pc = "carve" THEN carveIter(g)
  ELSE IF g.pc = "rooms" THEN carveRooms(g)
  ELSE placeDoors(g)

\* Two invocations of generateChunkMaze with the same arguments, started at any
\* times and run statement by statement in any interleaving.
GenArgs ==
  {<<12345, 1, 0, 0>>, <<12345, 1, 1, 0>>, <<12345, 1, 0 - 1, 0>>, <<7, 2, 0, 0 - 1>>}

Runs == {"a", "b"}

InitGen ==
  /\ InitStore({2}) /\ InitServer
  /\ race = [x |-> 0, y |-> 0, dir |-> "N", rnd |-> NoDraw]
  /\ proc = [p \in Procs |-> Idle]
  /\ carves = 0
  /\ asked = NoAsk /\ hand = NoHand /\ env = DefaultEnv
  /\ \E a \in GenArgs : twin = [phase |-> "gen", args |-> a, run |-> [r \in Runs |-> NoRun]]

\* invocation r is called
GenBegin(r) ==
  /\ twin.phase = "gen" /\ twin.run[r].pc = "idle"
  /\ twin' = [twin EXCEPT !.run[r] =
                generateStart(twin.args[1], twin.args[2], twin.args[3], twin.args[4])]
  /\ UNCHANGED <<edges, cells, hubOrder, hubDoorCount>>
  /\ UNCHANGED serverVars /\ UNCHANGED raceVars /\ UNCHANGED <<asked, hand, env>>

\* invocation r runs its next statement
GenNext(r) ==
  /\ twin.phase = "gen" /\ twin.run[r].pc \in {"carve", "rooms", "doors"}
  /\ twin' = [twin EXCEPT !.run[r] = generateStep(twin.run[r])]
  /\ UNCHANGED <<edges, cells, hubOrder, hubDoorCount>>
  /\ UNCHANGED serverVars /\ UNCHANGED raceVars /\ UNCHANGED <<asked, hand, env>>

NextGen ==
  \/ Tick
  \/ \E r \in Runs : GenBegin(r)
  \/ \E r \in Runs : GenNext(r)

SpecGen == InitGen /\ [][NextGen]_vars

\* A movement query, remembered as Ask remembers it, with cells carved
\* north and west of the hub until MaxCellsGrow cells exist: far enough for a
\* room to be carved and a frontier door of that room to be expanded.  The
\* draws of an expansion are any the generator can give, whatever the source.
Grow(x, y, dir) ==
  /\ \E carve \in {WouldCarve(Store, x, y, dir)} :
       /\ carve => /\ CarveAllowedUpTo(Store, x, y, dir, MaxCellsGrow)
                   /\ step(x, y, dir).nx <= 0 /\ step(x, y, dir).ny <= 0
       /\ \E rnd \in (IF carve THEN CorridorDraws \cup AskRoomDraws ELSE {NoDraw}) :
            \E r \in {edgeType(Store, x, y, dir, "movement", rnd)} :
               /\ edges' = r.S.edges
               /\ cells' = r.S.cells
  /\ \E fr \in {IsFrontierDoor(ensureSeedHub(Store), x, y, dir)} :
       asked' = IF fr
                THEN [x |-> x, y |-> y, dir |-> dir, purpose |-> "movement", frontier |-> TRUE]
                ELSE [NoAsk EXCEPT !.purpose = "movement"]
  /\ UNCHANGED <<hubOrder, hubDoorCount>>
  /\ UNCHANGED serverVars
  /\ UNCHANGED raceVars
  /\ UNCHANGED harnessVars

NextGrow == \E k \in TryKeys : Grow(k[1], k[2], k[3])

SpecGrow == Init /\ [][NextGrow]_vars

\* One invocation of generateChunkMaze under every outcome of its XorShift32:
\* any start cell, any order of dirs after each shuffle, any room size, place
\* and side in each pass of carveRooms, any roll in placeDoors.  twin.i is the
\* loop index of carveRooms; at most MaxDoors rolls of placeDoors fall below
\* doorChance.
IntOutcomes(min, max) == IF max > min THEN min..(max - 1) ELSE {min}

DirOrders == {p \in [1..4 -> DirSet] : \A i, j \in 1..4 : p[i] = p[j] => i = j}

\* the edges of the chunk that placeDoors has made doors
NumDoors(g) ==
  Cardinality({i \in DOMAIN g.east : g.east[i] = EDGE_DOOR})
    + Cardinality({i \in DOMAIN g.south : g.south[i] = EDGE_DOOR})

RoomSizes == {<<2, 2>>, <<2, 3>>, <<3, 2>>, <<3, 3>>}

InitCarve ==
  /\ InitStore({2}) /\ InitServer
  /\ race = [x |-> 0, y |-> 0, dir |-> "N", rnd |-> NoDraw]
  /\ proc = [p \in Procs |-> Idle]
  /\ carves = 0
  /\ asked = NoAsk /\ hand = NoHand /\ env = DefaultEnv
  /\ twin = [phase |-> "carve", run |-> NoRun, i |-> 0]

CarveUnchanged ==
  /\ UNCHANGED <<edges, cells, hubOrder, hubDoorCount>>
  /\ UNCHANGED serverVars /\ UNCHANGED raceVars /\ UNCHANGED <<asked, hand, env>>

\* lines 16-30 with sx and sy any cell of the chunk
CarveBegin(c) ==
  /\ twin.phase = "carve" /\ twin.run.pc = "idle"
  /\ twin' = [twin EXCEPT !.run = [NoRun EXCEPT !.pc = "carve", !.stack = <<c>>, !.visited = {c}]]
  /\ CarveUnchanged

\* one iteration of while (stack.length), the shuffle leaving dirs in order p
CarveAny(p) ==
  /\ twin.phase = "carve" /\ twin.run.pc = "carve"
  /\ twin' = [twin EXCEPT !.run = [carveWith([twin.run EXCEPT !.dirs = p]) EXCEPT !.dirs = Dirs]]
  /\ CarveUnchanged

\* one pass of the loop of carveRooms
RoomAny(z, side) ==
  /\ twin.phase = "carve" /\ twin.run.pc = "rooms"
  /\ IF twin.i >= RoomAttempts
     THEN twin' = [twin EXCEPT !.run.pc = "doors", !.i = 0]
     ELSE \E x0 \in IntOutcomes(1, ChunkSize - z[1] - 1), y0 \in IntOutcomes(1, ChunkSize - z[2] - 1) :
            \E at \in (IF side \in {0, 2} THEN IntOutcomes(x0, x0 + z[1])
                        ELSE IntOutcomes(y0, y0 + z[2])) :
              twin' = [twin EXCEPT
                         !.run = openSideAt(carveRect(twin.run, x0, y0, z[1], z[2]),
                                            x0, y0, z[1], z[2], side, at),
                         !.i = twin.i + 1]
  /\ CarveUnchanged

RECURSIVE DoorLoopWith(_, _, _)
\* the loops of placeDoors with the rolls at the entries in ds below doorChance
DoorLoopWith(g, i, ds) ==
  IF i >= ChunkSize * ChunkSize THEN g
  ELSE Let(doorWith(g, "east", i, <<"east", i>> \in ds), LAMBDA g1 :
         Let(doorWith(g1, "south", i, <<"south", i>> \in ds), LAMBDA g2 :
           DoorLoopWith(g2, i + 1, ds)))

\* the entries of the arrays a roll may fall on: those that are open
DoorRolls(g) == {r \in {"east", "south"} \X (0..(ChunkSize * ChunkSize - 1)) : g[r[1]][r[2]] = EDGE_OPEN}

\* placeDoors, the rolls at the entries in ds below doorChance
DoorsAny(ds) ==
  /\ twin.phase = "carve" /\ twin.run.pc = "doors"
  /\ twin' = [twin EXCEPT !.run = [DoorLoopWith(twin.run, 0, ds) EXCEPT !.pc = "done"]]
  /\ CarveUnchanged

NextCarve ==
  \/ \E c \in Cells : CarveBegin(c)
  \/ \E p \in DirOrders : CarveAny(p)
  \/ \E z \in RoomSizes, side \in 0..3 : RoomAny(z, side)
  \/ \E f \in [1..MaxDoors -> DoorRolls(twin.run) \cup {<<"none", 0>>}] :
       DoorsAny({f[k] : k \in 1..MaxDoors})

SpecCarve == InitCarve /\ [][NextCarve]_vars

\* the statements of one invocation run one after another until it returns
SpecCarveFair == SpecCarve /\ WF_vars(NextCarve)

(* ------------------- the chunked world: base edges -------------------- *)
\* WorldEngine.edgeType of the world that generates its base edges per chunk.
\* The chunk of side CHUNK_SIZE is not computed here: chunk.east and chunk.south
\* stand for the array entry the lookup reads, and may be any edge code.
floorDiv(a, b) == a \div b

\* a % b of the source language: the remainder takes the sign of a
Rem(a, b) == IF a >= 0 THEN a % b ELSE 0 - ((0 - a) % b)

\* mutant of mod: the remainder keeps the sign of a
mod_Signed(a, b) == Rem(a, b)

mod(a, b) == IF Rem(a, b) < 0 THEN Rem(a, b) + b ELSE Rem(a, b)

EdgeName(v) == IF v = EDGE_DOOR THEN "door_unlocked" ELSE IF v = EDGE_OPEN THEN "open" ELSE "wall"

baseEdgeTypeFromChunk(chunk, lx, ly, dir) ==
  IF ~(lx >= 0 /\ ly >= 0 /\ lx < CHUNK_SIZE /\ ly < CHUNK_SIZE) THEN "wall"
  ELSE IF dir = "E" THEN EdgeName(chunk.east)
  ELSE IF dir = "S" THEN EdgeName(chunk.south)
  ELSE IF dir = "W" THEN (IF lx = 0 THEN "wall" ELSE EdgeName(chunk.east))
  ELSE IF ly = 0 THEN "wall" ELSE EdgeName(chunk.south)

\* ov is what overlay.getEdgeOverride returned: an edge kind, or "null"
chunkEdgeType(ov, chunk, x, y, dir) ==
  LET lx == mod(x, CHUNK_SIZE)
      ly == mod(y, CHUNK_SIZE)
  IN IF ov # "null" THEN ov
     ELSE IF x = 0 /\ y = 0 /\ dir = "E" THEN "open"
     ELSE IF x = 1 /\ y = 0 /\ dir = "W" THEN "open"
     ELSE IF x = 0 /\ y = 0 /\ dir = "S" THEN "open"
     ELSE IF x = 0 /\ y = 1 /\ dir = "N" THEN "open"
     ELSE IF dir = "E" /\ lx = CHUNK_SIZE - 1 THEN (IF Rem(ly, 8) = 0 THEN "open" ELSE "wall")
     ELSE IF dir = "W" /\ lx = 0 THEN (IF Rem(ly, 8) = 0 THEN "open" ELSE "wall")
     ELSE IF dir = "S" /\ ly = CHUNK_SIZE - 1 THEN (IF Rem(lx, 8) = 0 THEN "open" ELSE "wall")
     ELSE IF dir = "N" /\ ly = 0 THEN (IF Rem(lx, 8) = 0 THEN "open" ELSE "wall")
     ELSE baseEdgeTypeFromChunk(chunk, lx, ly, dir)

\* coordinates on both sides of the chunk boundaries at -64, 0, 64 and 128, and
\* inside chunks, with local coordinates that are and are not multiples of 8
WorldCoords == {0 - 65, 0 - 64, 0 - 57, 0 - 56, 0 - 1, 0, 1, 8, 63, 64, 127, 128}

InitEdge ==
  /\ InitStore({2}) /\ InitServer
  /\ race = [x |-> 0, y |-> 0, dir |-> "N", rnd |-> NoDraw]
  /\ proc = [p \in Procs |-> Idle]
  /\ carves = 0
  /\ asked = NoAsk /\ hand = NoHand /\ env = DefaultEnv
  /\ \E x \in WorldCoords, y \in WorldCoords, dir \in DirSet, ov \in {"null", "door_locked"},
        v \in {EDGE_WALL, EDGE_OPEN, EDGE_DOOR} :
       twin = [phase |-> "edge", x |-> x, y |-> y, dir |-> dir, ov |-> ov,
               chunk |-> [east |-> v, south |-> v], out |-> "none", mirror |-> "none"]

\* edgeType(levelId, x, y, dir) and the same edge asked from the cell behind it
EdgeQuery ==
  /\ twin.phase = "edge" /\ twin.out = "none"
  /\ twin' = [twin EXCEPT
                !.out = chunkEdgeType(twin.ov, twin.chunk, twin.x, twin.y, twin.dir),
                !.mirror = chunkEdgeType(twin.ov, twin.chunk, step(twin.x, twin.y, twin.dir).nx,
                                         step(twin.x, twin.y, twin.dir).ny, opposite(twin.dir))]
  /\ UNCHANGED <<edges, cells, hubOrder, hubDoorCount>>
  /\ UNCHANGED serverVars /\ UNCHANGED raceVars /\ UNCHANGED <<asked, hand, env>>

NextEdge == EdgeQuery

SpecEdge == InitEdge /\ [][NextEdge]_vars

(* ------------------------- claims on the handler ------------------------ *)
\* a step in which a connection handled a frame
RecvStep == now' = now /\ last'.c # "none"

\* a step in which a frame passed the seq check
Accepted == RecvStep /\ conn'[last'.c].lastSeq > conn[last'.c].lastSeq

MoveSucceeds == Accepted /\ last'.info.stage = "move" /\ last'.info.ok

PosOf(C, u) == [nx |-> C[u].x, ny |-> C[u].y]

\* C1: a character's position changes only as the result of a move whose
\* resolved absolute direction d had a movement edge of kind open, door_unlocked
\* or lever_secret at the time of the move, and the new position is the
\* neighbour of the old one in direction d; no move crosses a wall or a locked
\* door.
C1_MoveOnlyThroughTraversable ==
  [][\A u \in Users :
       PosOf(chars', u) # PosOf(chars, u) =>
         /\ MoveSucceeds
         /\ conn[last'.c].userId = u
         /\ last'.info.absDir = moveDirToAbs(chars[u].face, last'.m.arg)
         /\ last'.info.e \in Traversable
         /\ last'.info.e \notin {"wall", "door_locked"}
         /\ PosOf(chars', u) = step(chars[u].x, chars[u].y, last'.info.absDir)]_vars

\* C1 witness: a move through an unlocked door has taken u1 out of the hub, to
\* the corridor cell north of (0, 0)
C1_Witness ==
  /\ last.info.stage = "move" /\ last.info.ok
  /\ last.info.e = "door_unlocked" /\ last.info.absDir = "N"
  /\ chars["u1"].x = 0 /\ chars["u1"].y = 0 - 1
  /\ cells[0][0 - 1].kind = "corridor"

\* C2: on one connection, if a move succeeds at time t then no later move on
\* that connection succeeds earlier than t + MOVE_COOLDOWN_MS, and a move that
\* arrives while now < moveReadyAtMs is answered action_result ok=false
\* reason=move_cooldown.
C2_MoveCooldown ==
  [][/\ MoveSucceeds =>
          (moveOkAt[last'.c] < 0 \/ now >= moveOkAt[last'.c] + MoveCooldownMs)
     /\ (Accepted /\ conn[last'.c].authed /\ last'.m.type = "move"
           /\ now < conn[last'.c].cooldowns.moveReadyAtMs) =>
          sent' = <<ActionResult(FALSE, "move_cooldown", last'.m.seq)>>]_vars

SessionOf(u) == CHOOSE tok \in DOMAIN Sessions : Sessions[tok].userId = u

Expired(tok) == now > Sessions[tok].expiresAt

\* C6: session expiry is enforced at auth and on every later operation.  An
\* auth with a token whose expiry time has passed yields auth_err, and once the
\* session of an authenticated connection has expired no move or turn on that
\* connection succeeds: it is answered auth_err.
C6_SessionExpiry ==
  [][Accepted =>
       /\ (last'.m.type = "auth" /\ last'.m.arg \in DOMAIN Sessions /\ Expired(last'.m.arg)) =>
            (sent'[1].type = "auth_err" /\ ~last'.info.ok)
       /\ (last'.m.type \in {"move", "turn"} /\ conn[last'.c].authed
             /\ Expired(SessionOf(conn[last'.c].userId))) =>
            (sent'[1].type = "auth_err" /\ ~last'.info.ok)]_vars

\* the frame is JSON and its fields other than seq pass the schema
ValidApartFromSeq(m) == m.json /\ safeParseClient([m EXCEPT !.seqKind = "number"]).ok

\* C3: a client message is accepted only if its seq is a finite integer
\* strictly greater than lastSeq; otherwise the reply is error bad_seq, the
\* message is not dispatched and lastSeq is not advanced.
C3_SeqCheck ==
  [][RecvStep =>
       LET c == last'.c
           m == last'.m
           good == m.seqKind = "number" /\ IsIntegerSeq(m.seq) /\ m.seq > conn[c].lastSeq
       IN /\ (conn'[c].lastSeq # conn[c].lastSeq
                \/ last'.info.stage \notin {"bad_json", "bad_schema", "bad_seq"}) =>
               (good /\ conn'[c].lastSeq = m.seq)
          /\ (ValidApartFromSeq(m) /\ ~good) =>
               /\ last'.info.stage = "bad_seq"
               /\ Len(sent') = 1 /\ sent'[1].type = "error" /\ sent'[1].code = "bad_seq"
               /\ conn'[c] = conn[c]]_vars

\* the frame handled in this step is schema-valid, not an auth, and reached a
\* connection that is not authenticated
UnauthFrame ==
  /\ RecvStep
  /\ ~conn[last'.c].authed
  /\ last'.m.json /\ safeParseClient(last'.m).ok
  /\ last'.m.type # "auth"

\* answered auth_err 'unauthenticated', with no change to any pose, to the
\* discovery set, to the overlay store or to the connection's cooldowns
GateAnswer ==
  /\ sent' = <<[type |-> "auth_err", reason |-> "unauthenticated"]>>
  /\ chars' = chars /\ disc' = disc /\ edges' = edges /\ cells' = cells
  /\ conn'[last'.c].cooldowns = conn[last'.c].cooldowns
  /\ ~conn'[last'.c].authed

\* C4 as stated: while a connection is not authenticated, every schema-valid
\* message of a type other than auth is answered auth_err 'unauthenticated' and
\* changes no pose, nor the discovery set, the overlay store or the cooldowns.
C4_EveryUnauthFrame == [][UnauthFrame => GateAnswer]_vars

\* C4 amended: while a connection is not authenticated, every schema-valid
\* message of a type other than auth whose seq is greater than lastSeq is
\* answered auth_err 'unauthenticated' and changes no pose, nor the discovery
\* set, the overlay store or the cooldowns; one whose seq is not greater is
\* answered error bad_seq, with the same lack of effect.
C4_UnauthGate ==
  [][UnauthFrame =>
       IF last'.m.seq > conn[last'.c].lastSeq THEN GateAnswer
       ELSE /\ sent' = <<[type |-> "error", code |-> "bad_seq", seq |-> last'.m.seq]>>
            /\ chars' = chars /\ disc' = disc /\ edges' = edges /\ cells' = cells
            /\ conn' = conn]_vars

\* C4 witness: a move with a fresh seq reached an unauthenticated connection
\* and was answered auth_err 'unauthenticated'
C4_Witness ==
  /\ last.c = "c1" /\ last.m.type = "move" /\ last.info.stage = "gate"
  /\ ~conn["c1"].authed /\ conn["c1"].lastSeq = last.m.seq
  /\ sent = <<[type |-> "auth_err", reason |-> "unauthenticated"]>>

\* C5: an auth message takes effect only while the connection is not yet
\* authenticated.  Once authed, a later auth on the same connection does not
\* rebind userId, characterId or worldId and does not reset moveReadyAtMs or
\* turnReadyAtMs.
C5_AuthOnlyOnce ==
  [][(Accepted /\ conn[last'.c].authed /\ last'.m.type = "auth") =>
       /\ conn'[last'.c].userId = conn[last'.c].userId
       /\ conn'[last'.c].characterId = conn[last'.c].characterId
       /\ conn'[last'.c].worldId = conn[last'.c].worldId
       /\ conn'[last'.c].cooldowns = conn[last'.c].cooldowns]_vars

C17_AcceptedMove ==
  [][MoveSucceeds =>
       \A u \in {conn[last'.c].userId} :
         \A d \in {step(chars[u].x, chars[u].y, last'.info.absDir)} :
           /\ chars'[u].x = d.nx /\ chars'[u].y = d.ny
           /\ chars'[u].levelId = chars[u].levelId
           /\ <<d.nx, d.ny>> \in disc'
           /\ conn'[last'.c].cooldowns.moveReadyAtMs = now + MoveCooldownMs
           /\ Len(sent') = 2 /\ sent'[2].type = "world_state"
           /\ sent'[2].you = PlayerOf(loadActiveCharacter(chars', u))
           /\ sent'[2].cooldowns = conn'[last'.c].cooldowns]_vars

\* an accepted move has taken u1 from the hub into a cell that was not
\* discovered before, at a time after the start
C17_Witness ==
  /\ last.info.stage = "move" /\ last.info.ok
  /\ now > 0
  /\ cells[chars["u1"].x][chars["u1"].y].kind = "corridor"
  /\ <<chars["u1"].x, chars["u1"].y>> \in disc
  /\ conn["c1"].cooldowns.moveReadyAtMs = now + MoveCooldownMs
  /\ sent[2].you.x = chars["u1"].x /\ sent[2].you.y = chars["u1"].y

\* the direction behind a facing
Behind == [N |-> "S", E |-> "W", S |-> "N", W |-> "E"]

\* the accepted move took user u one cell in direction d
MovedOneCell(u, d) ==
  /\ chars'[u].x = step(chars[u].x, chars[u].y, d).nx
  /\ chars'[u].y = step(chars[u].x, chars[u].y, d).ny

Refusals == {"move_cooldown", "blocked", "bad_dir", "turn_cooldown", "not_implemented"}

\* the step answered a frame with action_result ok=false and one of the reasons
Refused(reasons) ==
  /\ RecvStep
  /\ Len(sent') = 1 /\ sent'[1].type = "action_result"
  /\ ~sent'[1].ok /\ sent'[1].reason \in reasons

\* C19: refusals change nothing.  A move refused with move_cooldown, blocked or
\* bad_dir, a turn refused with turn_cooldown, and any join_world, interact or
\* use_egg message (answered action_result ok=false reason=not_implemented, on
\* an authenticated connection) leave the character's persisted pose, the
\* discovery set and the connection's moveReadyAtMs and turnReadyAtMs unchanged.
C19_RefusalsChangeNothing ==
  [][/\ Refused(Refusals) =>
          /\ chars' = chars
          /\ disc' = disc
          /\ conn'[last'.c].cooldowns = conn[last'.c].cooldowns
     /\ (Accepted /\ conn[last'.c].authed
           /\ last'.m.type \in {"join_world", "interact", "use_egg"}) =>
          Refused({"not_implemented"})]_vars

\* C19 witness: u1 stands in the corridor cell north of the hub and its move
\* against a wall was refused with blocked
C19_Witness ==
  /\ last.info.stage = "move" /\ ~last.info.ok /\ last.info.e = "wall"
  /\ sent = <<ActionResult(FALSE, "blocked", last.m.seq)>>
  /\ chars["u1"].x = 0 /\ chars["u1"].y = 0 - 1
  /\ <<0, 0 - 1>> \in disc

TurnSucceeds == Accepted /\ last'.info.stage = "turn" /\ last'.info.ok

\* TURN_COOLDOWN_MS: the variable of the environment, 0 when it is unset
TurnCooldownSetting ==
  IF env.TURN_COOLDOWN_MS.set THEN env.TURN_COOLDOWN_MS.value ELSE TurnCooldownMs

\* C20: a turn accepted at time now sets the persisted facing to the requested
\* face and sets turnReadyAtMs to now + TURN_COOLDOWN_MS, leaving level, x, y,
\* hp and moveReadyAtMs unchanged; a turn arriving while now < turnReadyAtMs is
\* refused with reason turn_cooldown.
C20_AcceptedTurn ==
  [][/\ TurnSucceeds =>
          \A u \in {conn[last'.c].userId} :
            /\ chars'[u].face = last'.m.arg
            /\ conn'[last'.c].cooldowns.turnReadyAtMs = now + TurnCooldownSetting
            /\ chars'[u] = [chars[u] EXCEPT !.face = last'.m.arg]
            /\ conn'[last'.c].cooldowns.moveReadyAtMs = conn[last'.c].cooldowns.moveReadyAtMs
     /\ (Accepted /\ conn[last'.c].authed /\ last'.m.type = "turn"
           /\ now < conn[last'.c].cooldowns.turnReadyAtMs) =>
          /\ sent' = <<ActionResult(FALSE, "turn_cooldown", last'.m.seq)>>
          /\ chars' = chars]_vars

\* C20 witness: with a turn cooldown of one tick, u1 has moved out of (0, 0)
\* and then turned south; the move cooldown is still running
C20_Witness ==
  /\ env.TURN_COOLDOWN_MS.set
  /\ last.info.stage = "turn" /\ last.info.ok /\ last.m.arg = "S"
  /\ chars["u1"].face = "S"
  /\ <<chars["u1"].x, chars["u1"].y>> # <<0, 0>>
  /\ conn["c1"].cooldowns.turnReadyAtMs = now + TickMs
  /\ conn["c1"].cooldowns.moveReadyAtMs > now

\* C21: cooldown monotonicity.  After every successful move the connection's
\* moveReadyAtMs, and after every successful turn its turnReadyAtMs, is strictly
\* greater than its value before the action; it is equal only when the
\* corresponding cooldown constant is zero.
C21_CooldownMonotone ==
  [][/\ MoveSucceeds =>
          \/ conn'[last'.c].cooldowns.moveReadyAtMs > conn[last'.c].cooldowns.moveReadyAtMs
          \/ /\ MoveCooldownMs = 0
             /\ conn'[last'.c].cooldowns.moveReadyAtMs = conn[last'.c].cooldowns.moveReadyAtMs
     /\ TurnSucceeds =>
          \/ conn'[last'.c].cooldowns.turnReadyAtMs > conn[last'.c].cooldowns.turnReadyAtMs
          \/ /\ TurnCooldownSetting = 0
             /\ conn'[last'.c].cooldowns.turnReadyAtMs = conn[last'.c].cooldowns.turnReadyAtMs]_vars

\* C21 witness: with a turn cooldown of one tick, a turn was accepted after the
\* clock had advanced, and earlier on the connection a move was
C21_Witness ==
  /\ env.TURN_COOLDOWN_MS.set
  /\ last.info.stage = "turn" /\ last.info.ok
  /\ now > 0
  /\ conn["c1"].cooldowns.turnReadyAtMs = now + TickMs
  /\ moveOkAt["c1"] >= 0
  /\ conn["c1"].cooldowns.moveReadyAtMs = moveOkAt["c1"] + MoveCooldownMs

\* C22: hub openness.  In every reachable state canTraverse from (0, 0) toward
\* E, to (1, 0), and toward S, to (0, 1), is true.
C22_HubOpen ==
  \A d \in {"E", "S"} :
    /\ canTraverseAbs(Store, 0, 0, d, NoDraw).ok
    /\ getCellMeta(canTraverseAbs(Store, 0, 0, d, NoDraw).S, step(0, 0, d).nx, step(0, 0, d).ny)

\* C22 witness: a corridor has been carved next to the hub, whose edges from
\* (0, 0) toward E and S are stored as open
C22_Witness ==
  /\ NumCells(Store) = MaxCells
  /\ edges[0][0]["E"].edgeType = "open" /\ edges[0][0]["S"].edgeType = "open"
  /\ edges[1][0]["W"].edgeType = "open" /\ edges[0][1]["N"].edgeType = "open"

\* C24: the discovery set is append-only and markDiscovered is idempotent.  A
\* step never removes a discovered (level, x, y); the table holds one row per
\* cell; marking a cell that is already discovered leaves the set of discovered
\* cells unchanged, and the cell's row carries the time of the latest mark.
C24_DiscoveryAppendOnly ==
  [][twin.phase = "disc" =>
       /\ DiscKeys(twin.rows) \subseteq DiscKeys(twin'.rows)
       /\ \A r, q \in twin'.rows : DiscKey(r) = DiscKey(q) => r = q
       /\ (twin'.marked # twin.marked \/ twin'.rows # twin.rows \/ twin'.again # twin.again) =>
            /\ DiscKeys(twin'.rows) = DiscKeys(twin.rows) \cup {twin'.marked}
            /\ twin'.again => DiscKeys(twin'.rows) = DiscKeys(twin.rows)
            /\ \E r \in twin'.rows : DiscKey(r) = twin'.marked /\ r.at = now]_vars

\* C24 witness: a cell discovered at time 0 has been marked again later, every
\* other cell is discovered too
C24_Witness ==
  /\ twin.phase = "disc" /\ twin.again /\ now = MaxNow
  /\ Cardinality(twin.rows) = 4
  /\ [levelId |-> 1, x |-> 0, y |-> 0, at |-> 0] \in twin.rows
  /\ \E r \in twin.rows : DiscKey(r) = twin.marked /\ r.at = MaxNow

\* the coordinates of a list of cells
CoordsOf(cs) == [i \in 1..Len(cs) |-> <<cs[i].x, cs[i].y>>]

\* a list of coordinates in order of y, then x, each once
OrderedYX(cs) ==
  \A i \in 1..(Len(cs) - 1) :
    cs[i][2] < cs[i + 1][2] \/ (cs[i][2] = cs[i + 1][2] /\ cs[i][1] < cs[i + 1][1])

\* the cells of D within the minimap's square around (px, py)
NearCells(D, px, py) ==
  {c \in D : /\ c[1] - px <= MinimapRadius /\ px - c[1] <= MinimapRadius
             /\ c[2] - py <= MinimapRadius /\ py - c[2] <= MinimapRadius}

\* C25: minimapCells of a snapshot are exactly the cells of the world's
\* discovery set on the player's level with |x - px| <= 12 and |y - py| <= 12,
\* in order of y, then x, whichever player discovered them.  Both the list a
\* world_state carries and the rows the query returns from a table with cells
\* at and beyond the radius and on another level.
C25_MinimapCells ==
  /\ \A i \in 1..Len(sent) :
       sent[i].type = "world_state" =>
         /\ OrderedYX(CoordsOf(sent[i].minimap_cells))
         /\ {CoordsOf(sent[i].minimap_cells)[k] : k \in 1..Len(sent[i].minimap_cells)}
              = NearCells(disc, sent[i].you.x, sent[i].you.y)
  /\ twin.phase = "mapped" =>
       /\ OrderedYX(twin.cells)
       /\ {twin.cells[k] : k \in 1..Len(twin.cells)}
            = NearCells({<<r.x, r.y>> : r \in {q \in twin.rows : q.levelId = twin.levelId}},
                        twin.px, twin.py)

\* C25 witness: the snapshot sent to c1 lists a cell only the character of the
\* other connection has occupied, and the query for a player at (1, 0) of level
\* 1 has returned the row at (13, 0), 12 cells away, and left out the row at
\* (-12, 1), 13 cells away
C25_Witness ==
  /\ last.c = "c1" /\ chars["u1"].x = 1 /\ chars["u1"].y = 0
  /\ chars["u2"].x = 0 /\ chars["u2"].y = 1
  /\ \E i \in 1..Len(sent) :
       /\ sent[i].type = "world_state"
       /\ CoordsOf(sent[i].minimap_cells) = << <<0, 0>>, <<1, 0>>, <<0, 1>> >>
  /\ twin.phase = "mapped" /\ twin.levelId = 1 /\ twin.px = 1 /\ twin.py = 0
  /\ twin.cells = << <<1, 0 - MinimapRadius>>, <<1, 0>>, <<MinimapRadius, 0>>,
                     <<MinimapRadius + 1, 0>>, <<0, 1>> >>

ActionHandled == RecvStep /\ last'.info.stage \in {"move", "turn", "reserved"}

C28_HashOfMessage ==
  \A i \in 1..Len(sent) :
    sent[i].type = "world_state" =>
      sent[i].world_hash = stableHash([you |-> sent[i].you,
                                       cooldowns |-> sent[i].cooldowns,
                                       visible |-> sent[i].visible_cells])

\* the types of ClientMsg
ClientTypes == {"auth", "move", "turn", "join_world", "interact", "use_egg"}

\* C29: a frame with an unknown type, or whose payload contains a field that
\* is not defined for its type, is answered with the one reply error
\* bad_schema, reaches no handler and leaves the connection, lastSeq included,
\* and the stored state as they were.
C29_SchemaRejects ==
  [][(RecvStep /\ last'.m.json /\ (last'.m.type \notin ClientTypes \/ last'.m.extra)) =>
       /\ Len(sent') = 1
       /\ sent'[1].type = "error" /\ sent'[1].code = "bad_schema"
       /\ last'.info.stage = "bad_schema"
       /\ conn' = conn /\ chars' = chars /\ disc' = disc]_vars

\* C30: a storage failure is answered and survived.  When a storage statement
\* throws while a message is handled, the client is sent an error reply, and
\* the connection stays open: it keeps its authenticated state afterwards.
C30_FailureAnswered ==
  [][/\ (hand.pc = "idle" /\ hand'.pc = "failed") =>
          \E i \in 1..Len(sent') : sent'[i].type = "error"
     /\ hand.pc = "failed" => conn'[hand.c] = conn[hand.c]]_vars

GrownDest == step(asked'.x, asked'.y, asked'.dir)

\* the step expanded a frontier door whose destination was not carved
Expanded ==
  /\ asked'.purpose = "movement" /\ asked'.frontier
  /\ cells[GrownDest.nx][GrownDest.ny].kind = "none"

\* the step wrote a room cell
RoomCarved ==
  \E x \in XR, y \in XR : cells[x][y].kind = "none" /\ cells'[x][y].kind = "room"

\* C32: expanding a frontier door whose source cell is of kind hub_room or
\* room writes a corridor cell at the destination and no room cell; a step
\* that writes a room cell expands a frontier door of a corridor cell.
C32_HubAndRoomGrowCorridors ==
  [][/\ (Expanded /\ SrcKind(ensureSeedHub(Store), asked'.x, asked'.y) \in {"hub_room", "room"})
          => (cells'[GrownDest.nx][GrownDest.ny].kind = "corridor" /\ ~RoomCarved)
     /\ RoomCarved
          => (Expanded /\ SrcKind(Store, asked'.x, asked'.y) = "corridor")]_vars

\* C32 witness: the frontier door of a room cell has been expanded into a
\* corridor cell that was not there before: its only door without the frontier
\* flag is the one back to the room
C32_Witness ==
  /\ asked.purpose = "movement" /\ asked.frontier
  /\ CellRow(Store, asked.x, asked.y).kind = "room"
  /\ CellRow(Store, AskedDest.nx, AskedDest.ny).kind = "corridor"
  /\ \A d \in DirSet :
       (/\ EdgeRow(Store, AskedDest.nx, AskedDest.ny, d).edgeType = "door_unlocked"
        /\ ~MetaFrontier(EdgeRow(Store, AskedDest.nx, AskedDest.ny, d).meta))
         <=> d = opposite(asked.dir)

\* the row of edge (x, y, d) of store T and its mirror are both row
BothWays(T, x, y, d, row) ==
  /\ EdgeRow(T, x, y, d) = row
  /\ EdgeRow(T, step(x, y, d).nx, step(x, y, d).ny, opposite(d)) = row

\* what placeCorridorCell leaves at an uncarved cell (cx, cy) reached from
\* cameFrom through the door backDoorId
CorridorPlaced(T, cx, cy, cameFrom, backDoorId) ==
  /\ CellRow(T, cx, cy).kind = "corridor"
  /\ BothWays(T, cx, cy, cameFrom, [edgeType |-> "door_unlocked", meta |-> DoorMeta(backDoorId, FALSE)])
  /\ \A d \in DirSet \ {cameFrom} :
       \/ BothWays(T, cx, cy, d, [edgeType |-> "wall", meta |-> EmptyMeta])
       \/ BothWays(T, cx, cy, d, [edgeType |-> "door_unlocked", meta |-> DoorMeta(NewDoorId, TRUE)])
  /\ Cardinality({d \in DirSet \ {cameFrom} : FrontierIn(T.edges, cx, cy, d)}) <= 2

\* C33: placeCorridorCell at an uncarved cell records kind corridor, makes the
\* edge back to the source a door_unlocked without the frontier flag, and makes
\* each of the other three edges, with its mirror, a wall or a door_unlocked
\* with the frontier flag, at most 2 of them doors; at a carved cell it writes
\* nothing.  Checked in every reachable store, for every cell within reach,
\* every direction and every draw.
C33_CorridorPlacement ==
  \A cx \in CarveLo..CarveHi, cy \in CarveLo..CarveHi, cameFrom \in DirSet, rnd \in CorridorDraws :
    Let(placeCorridorCell(Store, cx, cy, cameFrom, "b", rnd), LAMBDA T :
      IF getCellMeta(Store, cx, cy) THEN T = Store
      ELSE /\ CorridorPlaced(T, cx, cy, cameFrom, "b")
           /\ \A x \in XR, y \in XR : <<x, y>> # <<cx, cy>> => T.cells[x][y] = cells[x][y])

\* C33 witness: a movement query through a frontier door of the hub has just
\* placed a corridor cell with two frontier doors of its own, next to a cell
\* that was carved before it
C33_Witness ==
  /\ asked.purpose = "movement" /\ asked.frontier
  /\ CellRow(Store, asked.x, asked.y).kind = "hub_room"
  /\ CorridorPlaced(Store, AskedDest.nx, AskedDest.ny, opposite(asked.dir),
                    EdgeRow(Store, asked.x, asked.y, asked.dir).meta.doorId)
  /\ Cardinality({d \in DirSet : FrontierIn(edges, AskedDest.nx, AskedDest.ny, d)}) = 2
  /\ \E d \in DirSet \ {opposite(asked.dir)} :
       getCellMeta(Store, step(AskedDest.nx, AskedDest.ny, d).nx, step(AskedDest.nx, AskedDest.ny, d).ny)

\* the edge (x, y, dir) crosses a chunk boundary; lx and ly are the remainders
\* of x and y modulo CHUNK_SIZE, in 0..CHUNK_SIZE - 1 also below zero
CrossesBoundary(x, y, dir) ==
  \/ dir = "E" /\ x % CHUNK_SIZE = CHUNK_SIZE - 1
  \/ dir = "W" /\ x % CHUNK_SIZE = 0
  \/ dir = "S" /\ y % CHUNK_SIZE = CHUNK_SIZE - 1
  \/ dir = "N" /\ y % CHUNK_SIZE = 0

ForcedHubEdge(x, y, dir) ==
  <<x, y, dir>> \in {<<0, 0, "E">>, <<1, 0, "W">>, <<0, 0, "S">>, <<0, 1, "N">>}

EdgeCode(g, c, d) ==
  IF d = "E" THEN g.east[idx(c[1], c[2])]
  ELSE IF d = "S" THEN g.south[idx(c[1], c[2])]
  ELSE IF d = "W" THEN g.east[idx(c[1] - 1, c[2])]
  ELSE g.south[idx(c[1], c[2] - 1)]

\* the cells one open or door edge away from a cell of R, and R
Around(g, R) ==
  R \cup {n \in Cells : \E c \in R, d \in DirSet :
                           stepLocal(c[1], c[2], d) = n /\ EdgeCode(g, c, d) # EDGE_WALL}

RECURSIVE ReachedFrom(_, _)
ReachedFrom(g, R) == Let(Around(g, R), LAMBDA R1 : IF R1 = R THEN R ELSE ReachedFrom(g, R1))

ChunkConnected(g) == ReachedFrom(g, {<<0, 0>>}) = Cells

\* no entry of the array goes from open or door to wall in the step
KeepsTraversable(arr) ==
  \A i \in DOMAIN twin.run[arr] :
    twin.run[arr][i] # EDGE_WALL => twin'.run[arr][i] # EDGE_WALL

\* C35: for every outcome of the generator's PRNG the carve loop ends and the
\* invocation returns; once the loop has ended every cell of the chunk has been
\* visited and the graph of open and door edges of the chunk is connected; no
\* pass of carveRooms or placeDoors turns an open or door edge into a wall.
C35_CarveTerminatesConnected ==
  /\ <>(twin.run.pc = "done")
  /\ [](twin.run.pc \in {"rooms", "doors", "done"} =>
          (twin.run.visited = Cells /\ twin.run.stack = <<>> /\ ChunkConnected(twin.run)))
  /\ [][twin.run.pc \in {"rooms", "doors"} =>
          (KeepsTraversable("east") /\ KeepsTraversable("south"))]_vars

\* C35 witness: an invocation has returned a chunk with a door in it whose
\* rooms opened edges the carve loop had left walls: the cells (1, 1), (2, 1),
\* (1, 2), (2, 2) form a cycle
C35_Witness ==
  /\ twin.phase = "carve" /\ twin.run.pc = "done"
  /\ NumDoors(twin.run) = MaxDoors
  /\ twin.run.east[idx(1, 1)] # EDGE_WALL /\ twin.run.east[idx(1, 2)] # EDGE_WALL
  /\ twin.run.south[idx(1, 1)] # EDGE_WALL /\ twin.run.south[idx(2, 1)] # EDGE_WALL

\* C36: in every world_state, hub.direction is approximateDirToHub of the
\* position the message reports: E or W by the sign of -x when |x| >= |y|, S or
\* N by the sign of -y otherwise.
C36_HubDirection ==
  \A i \in 1..Len(sent) :
    sent[i].type = "world_state" =>
      sent[i].hub.direction = approximateDirToHub(sent[i].you.x, sent[i].you.y)

\* C37: the move rate limit holds per character.  When a move succeeds, every
\* authenticated connection of the same character whose latest successful move
\* is known made it at least MOVE_COOLDOWN_MS earlier.
C37_MoveCooldownPerCharacter ==
  [][MoveSucceeds =>
       \A c \in Conns :
         (/\ conn[c].authed /\ conn[c].characterId = conn[last'.c].characterId
          /\ moveOkAt[c] >= 0)
           => now >= moveOkAt[c] + MoveCooldownMs]_vars

\* the cells whose override the step wrote or changed
Rewritten == {c \in XR \X XR : cells'[c[1]][c[2]] # cells[c[1]][c[2]]}

\* C38: cell overrides are write-once.  No step changes or removes the kind or
\* the area id of a cell that has an override, and a step that writes room
\* cells writes exactly the four cells of one 2x2 block, none of which had an
\* override before.
C38_CellsWriteOnce ==
  [][/\ \A c \in Rewritten : cells[c[1]][c[2]].kind = "none"
     /\ RoomCarved =>
          \E x0 \in XR, y0 \in XR :
            /\ Rewritten = {<<x0, y0>>, <<x0 + 1, y0>>, <<x0, y0 + 1>>, <<x0 + 1, y0 + 1>>}
            /\ \A c \in Rewritten : cells'[c[1]][c[2]].kind = "room"]_vars

\* C38 witness: a room has been carved beside a corridor cell that leaves the
\* hub westwards, after which another door has been expanded; the hub cells
\* are hub_room still
C38_Witness ==
  /\ NumCells(Store) = 10
  /\ cells[0 - 1][0].kind = "corridor"
  /\ \E x \in XR, y \in XR : cells[x][y].kind = "room"
  /\ \A i \in 1..Len(HubCells) : CellRow(Store, HubCells[i][1], HubCells[i][2]).kind = "hub_room"

\* the cell of the character an authenticated connection plays
PlayedCell(c) == <<chars[conn[c].userId].x, chars[conn[c].userId].y>>

\* C39: the cell an authenticated character occupies has a cell override, and
\* in every store the handlers reach, an edge of a carved cell that a movement
\* query answers as open, door_unlocked or lever_secret leads to a cell that
\* has a cell override once the query is done, whatever the expansion draws.
C39_CharacterOnCarvedCell ==
  /\ \A c \in Conns : conn[c].authed => getCellMeta(Store, PlayedCell(c)[1], PlayedCell(c)[2])
  /\ \A k \in MoveKeys :
       \A rnd \in (IF WouldCarve(Store, k[1], k[2], k[3]) THEN CorridorDraws \cup AskRoomDraws
                   ELSE {NoDraw}) :
         Let(edgeType(Store, k[1], k[2], k[3], "movement", rnd), LAMBDA r :
           r.e \in Traversable =>
             getCellMeta(r.S, step(k[1], k[2], k[3]).nx, step(k[1], k[2], k[3]).ny))

\* C39 witness: the character has just crossed a door out of the hub and
\* stands on a corridor cell
C39_Witness ==
  /\ conn["c1"].authed /\ last.c = "c1" /\ last.info.stage = "move" /\ last.info.ok
  /\ last.info.e = "door_unlocked"
  /\ PlayedCell("c1") \notin {<<HubCells[i][1], HubCells[i][2]>> : i \in 1..Len(HubCells)}
  /\ CellRow(Store, PlayedCell("c1")[1], PlayedCell("c1")[2]).kind = "corridor"

\* the carved cells one stored traversable edge away from a cell of R, and R
CarvedAround(E, C, R) ==
  R \cup {n \in XR \X XR :
           /\ C[n[1]][n[2]].kind # "none"
           /\ \E c \in R, d \in DirSet :
                /\ step(c[1], c[2], d).nx = n[1] /\ step(c[1], c[2], d).ny = n[2]
                /\ E[c[1]][c[2]][d].edgeType \in Traversable}

RECURSIVE HubReach(_, _, _)
HubReach(E, C, R) ==
  Let(CarvedAround(E, C, R), LAMBDA R1 : IF R1 = R THEN R ELSE HubReach(E, C, R1))

\* the carved cells a path of traversable edges through carved cells joins to
\* the hub cell (0, 0)
ReachedFromHub(E, C) == IF C[0][0].kind = "none" THEN {} ELSE HubReach(E, C, {<<0, 0>>})

CarvedCells(C) == {c \in XR \X XR : C[c[1]][c[2]].kind # "none"}

\* C40: in every reachable overlay state every carved cell is joined to the
\* hub cell (0, 0) by a path of open, door_unlocked or lever_secret edges
\* through carved cells, and no step takes a cell out of the set so joined.
C40_CarvedCellsReachHub ==
  /\ [](CarvedCells(cells) = ReachedFromHub(edges, cells))
  /\ [][ReachedFromHub(edges, cells) \subseteq ReachedFromHub(edges', cells')]_vars

\* C40 witness: two corridor cells side by side west of the hub, each carved
\* from its own door, with a wall between them
C40_Witness ==
  /\ cells[0 - 1][0].kind = "corridor" /\ cells[0 - 1][0 - 1].kind = "corridor"
  /\ edges[0 - 1][0]["N"].edgeType = "wall"
  /\ edges[0 - 1][0]["E"].edgeType = "door_unlocked"
  /\ edges[0 - 1][0 - 1]["E"].edgeType = "door_unlocked"

====
